---------------------------- MODULE Spec2Model ----------------------------
(***************************************************************************)
(* Model of the streaming markdown component src/markdown-new.vue          *)
(* (MarkdownContent): the boundary detector, the stream accumulator, the   *)
(* HTML block splitter, the merge engine and the render pipeline.          *)
(*                                                                         *)
(* Text is a sequence of one-character strings.  Two characters of the     *)
(* alphabet stand for longer pieces of source that no operation of the     *)
(* component looks into: "X" is a run of RunLen letters and "I" is an      *)
(* inline image markup.  All offsets and lengths are JavaScript's          *)
(* (0-based, counted in characters, a run counting RunLen).                *)
(*                                                                         *)
(* HTML is a sequence of tokens: a tag is one token ("<p>", "</ul>", ...)  *)
(* and every character of text is one token.                               *)
(***************************************************************************)
EXTENDS Integers, Sequences, FiniteSets, TLC

\* ------------------------------------------------------------- bounds
\* Length of the run of letters the character "X" stands for.
RunLen == 450
\* Number of times the content prop may be replaced by a shorter value.
MaxResets == 1
\* Length of the longest first value of a stream that replaces another.
MaxFirstLen == 3

\* ------------------------------------------------- program constants
\* processAccumulatedContent: this.accumulatedMarkdown.length > 1000
FlushThreshold == 1000
\* processAccumulatedContent: lastNewline > 100
MinNewlineOffset == 100

\* ------------------------------------------------------ text helpers
NL == "\n"
\* The characters /\s/ matches among those of the alphabet.
Whitespace == {" ", "\t", "\n", "\r"}

Weight(c) == IF c = "X" THEN RunLen ELSE 1

RECURSIVE StrLen(_)
\* String.prototype.length
StrLen(s) == IF s = <<>> THEN 0 ELSE Weight(Head(s)) + StrLen(Tail(s))

\* Offset of the i-th element (1-based) of s, in characters (0-based).
OffsetOf(s, i) == StrLen(SubSeq(s, 1, i - 1))

RECURSIVE SelectFromTo(_, _, _, _, _)
SelectFromTo(s, i, off, from, to) ==
    IF i > Len(s) THEN <<>>
    ELSE (IF from <= off /\ off < to THEN <<s[i]>> ELSE <<>>)
         \o SelectFromTo(s, i + 1, off + Weight(s[i]), from, to)

Clamp(x, n) == IF x < 0 THEN 0 ELSE IF x > n THEN n ELSE x

SubstringOf(s, a, b) ==
    SelectFromTo(s, 1, 0, IF a < b THEN a ELSE b, IF a < b THEN b ELSE a)

\* String.prototype.substring(from, to): the arguments are clamped to
\* 0..length and swapped when from > to.
Substring(s, from, to) ==
    SubstringOf(s, Clamp(from, StrLen(s)), Clamp(to, StrLen(s)))

\* String.prototype.substring(from)
SubstringFrom(s, from) == Substring(s, from, StrLen(s))

RECURSIVE TrimLeft(_)
TrimLeft(s) ==
    IF s # <<>> /\ Head(s) \in Whitespace THEN TrimLeft(Tail(s)) ELSE s

RECURSIVE TrimRight(_)
TrimRight(s) ==
    IF s # <<>> /\ s[Len(s)] \in Whitespace
    THEN TrimRight(SubSeq(s, 1, Len(s) - 1)) ELSE s

\* String.prototype.trim
Trim(s) == TrimRight(TrimLeft(s))

RECURSIVE SplitAcc(_, _)
SplitAcc(s, cur) ==
    IF s = <<>> THEN <<cur>>
    ELSE IF Head(s) = NL THEN <<cur>> \o SplitAcc(Tail(s), <<>>)
    ELSE SplitAcc(Tail(s), Append(cur, Head(s)))

\* markdown.split('\n')
SplitLines(s) == SplitAcc(s, <<>>)

RECURSIVE LastIndexOfFrom(_, _, _)
LastIndexOfFrom(s, c, i) ==
    IF i = 0 THEN -1
    ELSE IF s[i] = c THEN OffsetOf(s, i)
    ELSE LastIndexOfFrom(s, c, i - 1)

\* String.prototype.lastIndexOf(c)
LastIndexOf(s, c) == LastIndexOfFrom(s, c, Len(s))

RECURSIVE Concat(_)
Concat(ss) == IF ss = <<>> THEN <<>> ELSE Head(ss) \o Concat(Tail(ss))

\* ------------------------------------------- Line Classifier regexes
\* Number of leading whitespace characters: the group (\s*).
IndentOf(line) == StrLen(line) - StrLen(TrimLeft(line))

StartsWith(s, p) == Len(s) >= Len(p) /\ SubSeq(s, 1, Len(p)) = p

\* line.match(/^(\s*)(```|~~~)/): the marker matched, "" when none.  The
\* backquote is written "'" throughout (a TLA+ string cannot hold one).
FenceMarker(line) ==
    LET rest == TrimLeft(line)
    IN  IF StartsWith(rest, <<"'", "'", "'">>) THEN "'''"
        ELSE IF StartsWith(rest, <<"~", "~", "~">>) THEN "~~~"
        ELSE ""

RECURSIVE CountLeading(_, _)
CountLeading(s, c) ==
    IF s # <<>> /\ Head(s) = c THEN 1 + CountLeading(Tail(s), c) ELSE 0

\* /^#{1,6}\s+/.test(line)
IsHeadingLine(line) ==
    LET n == CountLeading(line, "#")
    IN  /\ n >= 1
        /\ n <= 6
        /\ Len(line) > n
        /\ line[n + 1] \in Whitespace

Digits == {"0", "1", "2", "3", "4", "5", "6", "7", "8", "9"}

RECURSIVE CountDigits(_)
CountDigits(s) ==
    IF s # <<>> /\ Head(s) \in Digits THEN 1 + CountDigits(Tail(s)) ELSE 0

\* line.match(/^(\s*)([-*+]|\d+\.)\s+/): whether it matches.
IsListLine(line) ==
    LET rest == TrimLeft(line)
        d    == CountDigits(rest)
    IN  \/ /\ Len(rest) >= 2
           /\ rest[1] \in {"-", "*", "+"}
           /\ rest[2] \in Whitespace
        \/ /\ d >= 1
           /\ Len(rest) >= d + 2
           /\ rest[d + 1] = "."
           /\ rest[d + 2] \in Whitespace

\* line.trim() === ''
IsEmptyLine(line) == Trim(line) = <<>>

\* ------------------------------------------------- Boundary Detector
\* The state object of detectBlockBoundaries, with the boundaries array.
ScanInit ==
    [i |-> 0, currentIndex |-> 0, inCodeBlock |-> FALSE, codeBlockFence |-> "",
     inList |-> FALSE, listIndent |-> -1, lastNonEmptyLineIndex |-> -1,
     boundaries |-> <<>>]

\* The test "lastNonEmptyLineIndex >= 0 && lastNonEmptyLineIndex < lineIndex - 1".
ContentBeforeGap(st, lineIndex) ==
    st.lastNonEmptyLineIndex >= 0 /\ st.lastNonEmptyLineIndex < lineIndex - 1

\* processCodeBlock closing the open fence at any fence line, whatever its
\* marker.
processCodeBlockAnyMarker(line, lineIndex, lineEndIndex, st) ==
    LET m == FenceMarker(line)
    IN  IF m = "" THEN [handled |-> FALSE, st |-> st]
        ELSE IF ~st.inCodeBlock
        THEN [handled |-> FALSE,
              st |-> [st EXCEPT
                  !.boundaries = IF ContentBeforeGap(st, lineIndex)
                                 THEN Append(@, st.currentIndex - 1) ELSE @,
                  !.inCodeBlock = TRUE,
                  !.codeBlockFence = m]]
        ELSE [handled |-> TRUE,
              st |-> [st EXCEPT
                  !.inCodeBlock = FALSE,
                  !.codeBlockFence = "",
                  !.boundaries = Append(@, lineEndIndex),
                  !.lastNonEmptyLineIndex = lineIndex]]

\* processCodeBlock: [handled, st].  lineIndex is 0-based.
processCodeBlock(line, lineIndex, lineEndIndex, st) ==
    LET m == FenceMarker(line)
    IN  IF m = "" THEN [handled |-> FALSE, st |-> st]
        ELSE IF ~st.inCodeBlock
        THEN [handled |-> FALSE,
              st |-> [st EXCEPT
                  !.boundaries = IF ContentBeforeGap(st, lineIndex)
                                 THEN Append(@, st.currentIndex - 1) ELSE @,
                  !.inCodeBlock = TRUE,
                  !.codeBlockFence = m]]
        ELSE IF m = st.codeBlockFence
        THEN [handled |-> TRUE,
              st |-> [st EXCEPT
                  !.inCodeBlock = FALSE,
                  !.codeBlockFence = "",
                  !.boundaries = Append(@, lineEndIndex),
                  !.lastNonEmptyLineIndex = lineIndex]]
        ELSE [handled |-> FALSE, st |-> st]

\* processHeading without the test of state.inList.
processHeadingInList(line, lineIndex, lineEndIndex, st, lineStartIndex) ==
    IF ~IsHeadingLine(line) THEN [handled |-> FALSE, st |-> st]
    ELSE [handled |-> TRUE,
          st |-> [st EXCEPT
              !.boundaries =
                  Append(IF ContentBeforeGap(st, lineIndex)
                         THEN Append(@, lineStartIndex - 1) ELSE @,
                         lineEndIndex),
              !.lastNonEmptyLineIndex = lineIndex]]

\* processHeading: [handled, st].
processHeading(line, lineIndex, lineEndIndex, st, lineStartIndex) ==
    IF ~IsHeadingLine(line) \/ st.inList THEN [handled |-> FALSE, st |-> st]
    ELSE [handled |-> TRUE,
          st |-> [st EXCEPT
              !.boundaries =
                  Append(IF ContentBeforeGap(st, lineIndex)
                         THEN Append(@, lineStartIndex - 1) ELSE @,
                         lineEndIndex),
              !.lastNonEmptyLineIndex = lineIndex]]

\* processListItem taking every change of indentation, deeper or not, as
\* the start of a new list.
processListItemAnyChange(line, lineIndex, isEmptyLine, st, lineStartIndex) ==
    IF isEmptyLine \/ ~IsListLine(line) THEN [handled |-> FALSE, st |-> st]
    ELSE LET indent == IndentOf(line)
             opens  == ~st.inList \/ indent # st.listIndent
         IN  [handled |-> TRUE,
              st |-> [st EXCEPT
                  !.boundaries =
                      IF opens /\ st.inList /\ st.lastNonEmptyLineIndex >= 0
                      THEN Append(@, lineStartIndex - 1) ELSE @,
                  !.inList = IF opens THEN TRUE ELSE @,
                  !.listIndent = IF opens THEN indent ELSE @,
                  !.lastNonEmptyLineIndex = lineIndex]]

\* processListItem: [handled, st].
processListItem(line, lineIndex, isEmptyLine, st, lineStartIndex) ==
    IF isEmptyLine \/ ~IsListLine(line) THEN [handled |-> FALSE, st |-> st]
    ELSE LET indent == IndentOf(line)
             opens  == ~st.inList \/ indent < st.listIndent
         IN  [handled |-> TRUE,
              st |-> [st EXCEPT
                  !.boundaries =
                      IF opens /\ st.inList /\ st.lastNonEmptyLineIndex >= 0
                      THEN Append(@, lineStartIndex - 1) ELSE @,
                  !.inList = IF opens THEN TRUE ELSE @,
                  !.listIndent = IF opens THEN indent ELSE @,
                  !.lastNonEmptyLineIndex = lineIndex]]

\* processEmptyLine: the state after it.  lines is the whole array.
processEmptyLine(lineIndex, isEmptyLine, lines, lineStartIndex, st) ==
    IF ~isEmptyLine
    THEN IF ~st.inList THEN [st EXCEPT !.lastNonEmptyLineIndex = lineIndex]
         ELSE st
    ELSE LET st1 == [st EXCEPT
                 !.boundaries = IF ContentBeforeGap(st, lineIndex)
                                THEN Append(@, lineStartIndex - 1) ELSE @]
             closes ==
                 IF lineIndex < Len(lines) - 1
                 THEN LET nextLine == lines[lineIndex + 2]
                      IN  ~IsListLine(nextLine)
                          \/ IndentOf(nextLine) < st.listIndent
                 ELSE TRUE
         IN  IF st.inList /\ closes
             THEN [st1 EXCEPT !.inList = FALSE, !.listIndent = -1]
             ELSE st1

\* The end of an iteration of the for loop of detectBlockBoundaries:
\* state.currentIndex = lineEndIndex + 1, then i++.
Advance(st, lineEndIndex) ==
    [st EXCEPT !.currentIndex = lineEndIndex + 1, !.i = @ + 1]

\* The iteration from the call of processEmptyLine on; item is what
\* processListItem returned.
ScanEmptyLine(lines, i, line, lineStartIndex, lineEndIndex, item) ==
    IF item.handled THEN Advance(item.st, lineEndIndex)
    ELSE Advance(processEmptyLine(i, IsEmptyLine(line), lines,
                                  lineStartIndex, item.st), lineEndIndex)

\* The iteration from the call of processListItem on; head is what
\* processHeading returned.
ScanListItem(lines, i, line, lineStartIndex, lineEndIndex, head) ==
    IF head.handled THEN Advance(head.st, lineEndIndex)
    ELSE ScanEmptyLine(lines, i, line, lineStartIndex, lineEndIndex,
                       processListItem(line, i, IsEmptyLine(line), head.st,
                                       lineStartIndex))

\* ScanHeading without the test of state.inCodeBlock: the lines of a fence
\* are classified like any other line.
ScanHeadingIgnoringFence(lines, i, line, lineStartIndex, lineEndIndex, code) ==
    IF code.handled THEN Advance(code.st, lineEndIndex)
    ELSE ScanListItem(lines, i, line, lineStartIndex, lineEndIndex,
                      processHeading(line, i, lineEndIndex, code.st,
                                     lineStartIndex))

\* The iteration from the test of state.inCodeBlock on; code is what
\* processCodeBlock returned.
ScanHeading(lines, i, line, lineStartIndex, lineEndIndex, code) ==
    IF code.handled \/ code.st.inCodeBlock
    THEN Advance(code.st, lineEndIndex)
    ELSE ScanListItem(lines, i, line, lineStartIndex, lineEndIndex,
                      processHeading(line, i, lineEndIndex, code.st,
                                     lineStartIndex))

ScanCodeBlock(lines, i, line, lineStartIndex, lineEndIndex, st) ==
    ScanHeading(lines, i, line, lineStartIndex, lineEndIndex,
                processCodeBlock(line, i, lineEndIndex, st))

\* One iteration of the for loop of detectBlockBoundaries (i is 0-based).
ScanLine(lines, i, st) ==
    ScanCodeBlock(lines, i, lines[i + 1], st.currentIndex,
                  st.currentIndex + StrLen(lines[i + 1]), st)

RECURSIVE ScanFrom(_, _)
\* for (let i = 0; i < lines.length; i++), st.i being the loop variable.
ScanFrom(lines, st) ==
    IF st.i >= Len(lines) THEN st
    ELSE ScanFrom(lines, ScanLine(lines, st.i, st))

\* detectBlockBoundaries(markdown): the boundaries array.
detectBlockBoundaries(markdown) ==
    ScanFrom(SplitLines(markdown), ScanInit).boundaries

\* ------------------------------------------------------- HTML tokens
\* The name each opening-tag token carries: the group (\w+) of
\* /^<(\w+)(?:\s[^>]*)?(?:\s*\/)?>/.
OpenTagName ==
    ("<p>" :> "p") @@ ("<h1>" :> "h1") @@ ("<h2>" :> "h2") @@
    ("<h3>" :> "h3") @@ ("<h4>" :> "h4") @@ ("<h5>" :> "h5") @@
    ("<h6>" :> "h6") @@
    ("<ul>" :> "ul") @@ ("<ol>" :> "ol") @@ ("<li>" :> "li") @@
    ("<blockquote>" :> "blockquote") @@ ("<pre>" :> "pre") @@
    ("<code>" :> "code") @@ ("<table>" :> "table") @@
    ("<table class=markdown-table>" :> "table") @@
    ("<thead>" :> "thead") @@ ("<tbody>" :> "tbody") @@ ("<tr>" :> "tr") @@
    ("<th>" :> "th") @@ ("<td>" :> "td") @@ ("<img>" :> "img") @@
    ("<br>" :> "br") @@ ("<hr>" :> "hr") @@ ("<input>" :> "input") @@
    ("<script>" :> "script")

\* The name each closing-tag token carries: the group of /^<\/(\w+)>/.
CloseTagName ==
    ("</p>" :> "p") @@ ("</h1>" :> "h1") @@ ("</h2>" :> "h2") @@
    ("</h3>" :> "h3") @@ ("</h4>" :> "h4") @@ ("</h5>" :> "h5") @@
    ("</h6>" :> "h6") @@
    ("</ul>" :> "ul") @@ ("</ol>" :> "ol") @@ ("</li>" :> "li") @@
    ("</blockquote>" :> "blockquote") @@ ("</pre>" :> "pre") @@
    ("</code>" :> "code") @@ ("</table>" :> "table") @@
    ("</thead>" :> "thead") @@ ("</tbody>" :> "tbody") @@ ("</tr>" :> "tr") @@
    ("</th>" :> "th") @@ ("</td>" :> "td") @@ ("</script>" :> "script")

IsOpenTag(t) == t \in DOMAIN OpenTagName
IsCloseTag(t) == t \in DOMAIN CloseTagName
IsTag(t) == IsOpenTag(t) \/ IsCloseTag(t)

\* t is an opening tag whose name is in names: /<(n1|n2|...)(?:\s[^>]*)?>/.
OpensOneOf(t, names) == IsOpenTag(t) /\ OpenTagName[t] \in names
ClosesOneOf(t, names) == IsCloseTag(t) /\ CloseTagName[t] \in names

HasOpen(html, names) == \E i \in 1..Len(html) : OpensOneOf(html[i], names)
HasClose(html, names) == \E i \in 1..Len(html) : ClosesOneOf(html[i], names)

\* /^<(names)(?:\s[^>]*)?>/.test(html)
BeginsWithOpen(html, names) == html # <<>> /\ OpensOneOf(html[1], names)

\* /<\/(names)>\s*$/.test(html)
EndsWithClose(html, names) ==
    LET t == TrimRight(html)
    IN  t # <<>> /\ ClosesOneOf(t[Len(t)], names)

\* html.replace(/<\/(names)>\s*$/, '')
StripFinalClose(html, names) ==
    LET t == TrimRight(html)
    IN  IF t # <<>> /\ ClosesOneOf(t[Len(t)], names)
        THEN SubSeq(t, 1, Len(t) - 1) ELSE html

\* html.replace(/^<blockquote[^>]*>/i, '')
StripFirstOpen(html, names) ==
    IF BeginsWithOpen(html, names) THEN Tail(html) ELSE html

\* The names of the tags /^<p[^>]*>/ matches: every name starting with p.
PrefixP == {"p", "pre"}

\* html.replace(/<[^>]+>/g, '')
StripTags(html) == SelectSeq(html, LAMBDA t : ~IsTag(t))

\* html.replace(/<\/[uo]l>/gi, '')
StripListCloses(html) ==
    SelectSeq(html, LAMBDA t : ~ClosesOneOf(t, {"ul", "ol"}))

RECURSIVE MatchSpans(_, _, _, _)
\* The matches of /<name[^>]*>[\s\S]*?<\/name>/gi, concatenated: from each
\* opening tag to the nearest closing tag after it, the scan going on behind it.
MatchSpans(html, names, i, from) ==
    IF i > Len(html) THEN <<>>
    ELSE IF from = 0
    THEN MatchSpans(html, names, i + 1,
                    IF OpensOneOf(html[i], names) THEN i ELSE 0)
    ELSE IF ClosesOneOf(html[i], names)
    THEN SubSeq(html, from, i) \o MatchSpans(html, names, i + 1, 0)
    ELSE MatchSpans(html, names, i + 1, from)

\* ------------------------------------------------ HTML Block Splitter
\* topLevelBlockElements of splitIntoCompleteBlocks
topLevelBlockElements ==
    {"p", "h1", "h2", "h3", "h4", "h5", "h6", "ul", "ol", "blockquote",
     "pre", "table", "hr"}

\* isSelfClosingTag(tagName)
isSelfClosingTag(tagName) == tagName \in {"img", "br", "hr", "input"}

\* html.substring(from, to) on tokens, 0-based, to exclusive.
HtmlSub(html, from, to) == SubSeq(html, from + 1, to)

\* The "save the previous block" step shared by handleSelfClosingBlock and
\* handleNonSelfClosingBlock.
PushPrevBlock(html, i, sp) ==
    IF sp.currentBlockStart >= 0 /\ i > sp.currentBlockStart
    THEN LET prevBlock == Trim(HtmlSub(html, sp.currentBlockStart, i))
         IN  IF prevBlock # <<>> THEN Append(sp.blocks, prevBlock)
             ELSE sp.blocks
    ELSE sp.blocks

\* handleSelfClosingBlock: the scan state after it (i is 0-based).
handleSelfClosingBlock(html, i, sp) ==
    [sp EXCEPT !.blocks = Append(PushPrevBlock(html, i, sp),
                                 HtmlSub(html, i, i + 1)),
               !.currentBlockStart = -1]

\* handleNonSelfClosingBlock: the scan state after it.
handleNonSelfClosingBlock(html, i, tagName, sp) ==
    [sp EXCEPT !.blocks = PushPrevBlock(html, i, sp),
               !.stack = Append(@, tagName),
               !.currentBlockStart = i]

\* processStartTag: the scan state after it.
processStartTag(html, i, sp) ==
    LET tagName         == OpenTagName[html[i + 1]]
        isTopLevelBlock == tagName \in topLevelBlockElements
        isSelfClosing   == isSelfClosingTag(tagName)
    IN  IF ~isTopLevelBlock
        THEN IF Len(sp.stack) > 0 /\ ~isSelfClosing
             THEN [sp EXCEPT !.stack = Append(@, tagName)]
             ELSE sp
        ELSE IF isSelfClosing THEN handleSelfClosingBlock(html, i, sp)
        ELSE handleNonSelfClosingBlock(html, i, tagName, sp)

RECURSIVE LastIndexOfName(_, _, _)
\* The greatest j (1-based) with stack[j] = tagName, 0 when none.
LastIndexOfName(stack, tagName, j) ==
    IF j = 0 THEN 0
    ELSE IF stack[j] = tagName THEN j
    ELSE LastIndexOfName(stack, tagName, j - 1)

\* processCloseTag: the scan state after it.
processCloseTag(html, i, sp) ==
    LET tagName == CloseTagName[html[i + 1]]
        j       == LastIndexOfName(sp.stack, tagName, Len(sp.stack))
    IN  IF Len(sp.stack) = 0 \/ j = 0 THEN sp
        ELSE LET stack == SubSeq(sp.stack, 1, j - 1)
             IN  IF /\ Len(stack) = 0
                    /\ sp.currentBlockStart >= 0
                    /\ tagName \in topLevelBlockElements
                 THEN [sp EXCEPT
                     !.stack = stack,
                     !.blocks = Append(@, HtmlSub(html, sp.currentBlockStart,
                                                  i + 1)),
                     !.currentBlockStart = -1]
                 ELSE [sp EXCEPT !.stack = stack]

\* processLastBlock: the blocks array after it.
processLastBlock(html, sp) ==
    IF sp.currentBlockStart >= 0 /\ sp.currentBlockStart < Len(html)
    THEN LET lastBlock == Trim(HtmlSub(html, sp.currentBlockStart, Len(html)))
         IN  IF lastBlock # <<>> THEN Append(sp.blocks, lastBlock)
             ELSE sp.blocks
    ELSE IF Len(sp.blocks) = 0 THEN Append(sp.blocks, html)
    ELSE sp.blocks

\* The positions i (0-based) the while loop of splitIntoCompleteBlocks finds
\* a tag at (html[i] === '<'), in order.
TagMatches(html) ==
    SelectSeq([k \in 1..Len(html) |-> k - 1], LAMBDA i : IsTag(html[i + 1]))

\* The loop moves on behind the tag (i++, or i = result.nextIndex):
\* sp.matched counts the tags seen.
NextMatch(sp) == [sp EXCEPT !.matched = @ + 1]

\* The body of the while loop of splitIntoCompleteBlocks for the tag at i.
SplitStep(html, i, sp) ==
    IF IsCloseTag(html[i + 1]) THEN processCloseTag(html, i, sp)
    ELSE processStartTag(html, i, sp)

RECURSIVE SplitScan(_, _, _)
\* The while loop of splitIntoCompleteBlocks.
SplitScan(html, matches, sp) ==
    IF sp.matched >= Len(matches) THEN sp
    ELSE SplitScan(html, matches,
                   NextMatch(SplitStep(html, matches[sp.matched + 1], sp)))

\* splitIntoCompleteBlocks(html): the blocks array.
splitIntoCompleteBlocks(html) ==
    IF Trim(html) = <<>> THEN <<>>
    ELSE processLastBlock(html,
             SplitScan(html, TagMatches(html),
                 [blocks |-> <<>>, stack |-> <<>>, currentBlockStart |-> -1,
                  matched |-> 0]))

\* ------------------------------------------------------- Merge Engine
ListTags == {"ul", "ol"}

\* trimmed.startsWith('<tag') && trimmed.endsWith('</tag>'), for one tag of tags
Wraps(trimmed, tags) ==
    BeginsWithOpen(trimmed, tags) /\ EndsWithClose(trimmed, tags)

\* trimmed.includes('<tag') && !trimmed.includes('</tag>'), over the tags
Unclosed(trimmed, tags) == HasOpen(trimmed, tags) /\ ~HasClose(trimmed, tags)

isParagraphBlock(html) == Wraps(Trim(html), {"p"})

\* The characters of /[。！？.!?]/ (the full-width ones written out).
SentenceEnd == {".", "!", "?", "fullwidth-stop", "fullwidth-!", "fullwidth-?"}

containsImgPrefix(html) == HasOpen(html, {"img"})

\* /[...]$/.test(textContent)
EndsSentence(textContent) ==
    textContent # <<>> /\ textContent[Len(textContent)] \in SentenceEnd

\* isParagraphComplete without the test of the text's last character.
isParagraphCompleteImagesOnly(html) == containsImgPrefix(html)

isParagraphComplete(html) ==
    EndsSentence(Trim(StripTags(html))) \/ containsImgPrefix(html)

isIncompleteList(html) == Unclosed(Trim(html), ListTags)

isListItemBlock(html) == Wraps(Trim(html), {"li"})

isListBlock(html) == Wraps(Trim(html), ListTags)

isIncompleteTable(html) == Unclosed(Trim(html), {"table"})

isTableRowBlock(html) == Wraps(Trim(html), {"tr"})

isTableBlock(html) == Wraps(Trim(html), {"table"})

isIncompleteBlockquote(html) == Unclosed(Trim(html), {"blockquote"})

isBlockquoteContent(html) ==
    BeginsWithOpen(Trim(html),
        {"p", "h1", "h2", "h3", "h4", "h5", "h6", "ul", "ol", "blockquote"})

\* containsImage(html)
containsImage(html) == HasOpen(html, {"img"})

\* shouldMergeBlocks(lastBlockHtml, currentBlockHtml)
shouldMergeBlocks(lastBlockHtml, currentBlockHtml) ==
    IF lastBlockHtml = <<>> \/ currentBlockHtml = <<>> THEN FALSE
    ELSE IF isParagraphBlock(lastBlockHtml) /\ isParagraphBlock(currentBlockHtml)
    THEN ~isParagraphComplete(lastBlockHtml)
    ELSE IF isIncompleteList(lastBlockHtml)
    THEN \/ isListItemBlock(currentBlockHtml)
         \/ isListBlock(currentBlockHtml)
         \/ isParagraphBlock(currentBlockHtml)
    ELSE IF isIncompleteTable(lastBlockHtml)
    THEN isTableRowBlock(currentBlockHtml) \/ isTableBlock(currentBlockHtml)
    ELSE IF isIncompleteBlockquote(lastBlockHtml)
    THEN isBlockquoteContent(currentBlockHtml)
    ELSE FALSE

\* lastHtml.match(/<([uo]l)(?:\s[^>]*)?>/i) of mergeBlocks: whether the first
\* list tag of lastHtml is ul.
OpensUl(lastHtml) ==
    \E i \in 1..Len(lastHtml) :
        /\ OpensOneOf(lastHtml[i], ListTags)
        /\ \A k \in 1..(i - 1) : ~OpensOneOf(lastHtml[k], ListTags)
        /\ OpenTagName[lastHtml[i]] = "ul"

MergeListWith(lastHtml, currentHtml, lastContent, closeTag) ==
    IF isListItemBlock(currentHtml)
    THEN lastContent \o currentHtml \o <<closeTag>>
    ELSE IF isListBlock(currentHtml)
    THEN lastContent \o MatchSpans(currentHtml, {"li"}, 1, 0) \o <<closeTag>>
    ELSE IF isParagraphBlock(currentHtml)
    THEN lastContent \o <<"<li>">>
         \o StripFinalClose(StripFirstOpen(currentHtml, PrefixP), {"p"})
         \o <<"</li>", closeTag>>
    ELSE lastHtml

\* The html mergeBlocks gives the updated block in its list branch.
MergeListHtml(lastHtml, currentHtml) ==
    MergeListWith(lastHtml, currentHtml, StripListCloses(lastHtml),
                  IF OpensUl(lastHtml) THEN "</ul>" ELSE "</ol>")

\* MergeTableWith appending the whole table block instead of its rows.
MergeTableWithWholeTable(lastHtml, currentHtml, lastContent) ==
    IF isTableRowBlock(currentHtml) \/ isTableBlock(currentHtml)
    THEN lastContent \o currentHtml \o <<"</table>">>
    ELSE lastHtml

MergeTableWith(lastHtml, currentHtml, lastContent) ==
    IF isTableRowBlock(currentHtml)
    THEN lastContent \o currentHtml \o <<"</table>">>
    ELSE IF isTableBlock(currentHtml)
    THEN lastContent \o MatchSpans(currentHtml, {"tr"}, 1, 0) \o <<"</table>">>
    ELSE lastHtml

\* The html mergeBlocks gives the updated block in its table branch.
MergeTableHtml(lastHtml, currentHtml) ==
    MergeTableWith(lastHtml, currentHtml, StripFinalClose(lastHtml, {"table"}))

\* mergeBlocks(lastBlock, currentBlockHtml): the updated block; the record
\* [id |-> "undefined"] stands for the undefined the function falls off with.
Undefined == [id |-> "undefined", html |-> <<>>]

mergeBlocks(lastBlock, currentBlockHtml) ==
    LET lastHtml    == lastBlock.html
        currentHtml == currentBlockHtml
    IN  IF isParagraphBlock(lastHtml) /\ isParagraphBlock(currentHtml)
        THEN [lastBlock EXCEPT !.html =
                 StripFinalClose(lastHtml, {"p"})
                 \o StripFinalClose(StripFirstOpen(currentHtml, PrefixP), {"p"})
                 \o <<"</p>">>]
        ELSE IF isIncompleteList(lastHtml)
        THEN [lastBlock EXCEPT !.html = MergeListHtml(lastHtml, currentHtml)]
        ELSE IF isIncompleteTable(lastHtml)
        THEN [lastBlock EXCEPT !.html = MergeTableHtml(lastHtml, currentHtml)]
        ELSE IF isIncompleteBlockquote(lastHtml)
        THEN [lastBlock EXCEPT !.html =
                 StripFinalClose(lastHtml, {"blockquote"})
                 \o StripFinalClose(
                        StripFirstOpen(currentHtml, {"blockquote"}),
                        {"blockquote"})
                 \o <<"</blockquote>">>]
        ELSE Undefined

\* ------------------------------------- the converter and the sanitizer
\* marked(newPart, {breaks: true, gfm: true, ...}) on the constructs the
\* alphabet can write: paragraphs, ATX headings, fenced code, bullet lists
\* (tight, loose, nested), block quotes and pipe tables.  Lines are those of
\* newPart.split('\n').
\* The inline pass: an image markup becomes an <img> element, any other
\* character is text.
MdInlineOf(t) == [k \in 1..Len(t) |-> IF t[k] = "I" THEN "<img>" ELSE t[k]]

MdInline(line) == MdInlineOf(Trim(line))

RECURSIVE MdInlineLines(_)
\* The lines of one paragraph, a line break between two becoming <br>.
MdInlineLines(ls) ==
    IF ls = <<>> THEN <<>>
    ELSE MdInline(ls[1])
         \o (IF Len(ls) = 1 THEN <<>>
             ELSE <<"<br>">> \o MdInlineLines(Tail(ls)))

RECURSIVE MdSplitCells(_, _)
MdSplitCells(s, cur) ==
    IF s = <<>> THEN <<Trim(cur)>>
    ELSE IF Head(s) = "|" THEN <<Trim(cur)>> \o MdSplitCells(Tail(s), <<>>)
    ELSE MdSplitCells(Tail(s), Append(cur, Head(s)))

\* A trimmed table row without its outer pipes.
MdStripPipes(t) ==
    SubSeq(t, IF t # <<>> /\ t[1] = "|" THEN 2 ELSE 1,
              IF Len(t) > 1 /\ t[Len(t)] = "|" THEN Len(t) - 1 ELSE Len(t))

\* The cells of a table row: the row without its outer pipes, cut at pipes.
MdCells(line) == MdSplitCells(MdStripPipes(Trim(line)), <<>>)

\* The cells of the row under a table's header: dashes only.
MdIsDelimiterRow(cells) ==
    \A c \in 1..Len(cells) :
        /\ cells[c] # <<>>
        /\ \A k \in 1..Len(cells[c]) : cells[c][k] = "-"

\* The level of an ATX heading, n the number of its leading #; 0 when the
\* line is no heading.
MdHeadingLevel(rest, indent, n) ==
    IF /\ indent <= 3
       /\ n >= 1
       /\ n <= 6
       /\ (Len(rest) = n \/ rest[n + 1] \in Whitespace)
    THEN n ELSE 0

\* What the block pass reads of one line: rest is the line without its
\* indentation.  fence is the fence character of an opening fence line, ""
\* when it is none.
MdLineOf(line, rest, indent, cells) ==
    [text    |-> line,
     rest    |-> rest,
     indent  |-> indent,
     blank   |-> rest = <<>>,
     trimmed |-> TrimRight(rest),
     fence   |-> IF indent > 3 THEN ""
                 ELSE IF StartsWith(rest, <<"'", "'", "'">>) THEN "'"
                 ELSE IF StartsWith(rest, <<"~", "~", "~">>) THEN "~"
                 ELSE "",
     level   |-> MdHeadingLevel(rest, indent, CountLeading(rest, "#")),
     bullet  |-> /\ rest # <<>>
                 /\ rest[1] \in {"-", "*", "+"}
                 /\ (Len(rest) = 1 \/ rest[2] \in {" ", "\t"}),
     quote   |-> indent <= 3 /\ rest # <<>> /\ rest[1] = ">",
     pipe    |-> \E k \in 1..Len(line) : line[k] = "|",
     cells   |-> cells,
     delim   |-> MdIsDelimiterRow(cells)]

MdLine(line) == MdLineOf(line, TrimLeft(line), IndentOf(line), MdCells(line))

MdLines(lines) == [k \in 1..Len(lines) |-> MdLine(lines[k])]

\* An opening fence needs the newline that ends its line.
MdIsFenceOpen(L, i) == L[i].fence # "" /\ i < Len(L)

MdIsFenceClose(l, ch) ==
    /\ l.indent <= 3
    /\ Len(l.trimmed) >= 3
    /\ \A k \in 1..Len(l.trimmed) : l.trimmed[k] = ch

MdIsTableStart(L, i) ==
    /\ i < Len(L)
    /\ L[i].pipe
    /\ L[i + 1].delim
    /\ Len(L[i].cells) = Len(L[i + 1].cells)

\* A line at which another block starts, ending the paragraph before it.
MdStartsBlock(L, i) ==
    \/ L[i].blank
    \/ MdIsFenceOpen(L, i)
    \/ L[i].level > 0 /\ Len(L[i].rest) > 1
    \/ L[i].quote
    \/ L[i].bullet /\ Len(L[i].rest) > 1

MdInterrupts(L, i) == MdStartsBlock(L, i) \/ MdIsTableStart(L, i)

\* Where the scan for the end of a construct stops: at the closing fence, at
\* the first line outside a list item whose content is indented by arg, at
\* the first line that is no quote line, at the end of a table's rows, at the
\* end of a paragraph.
MdStops(kind, arg, L, j) ==
    CASE kind = "fence" -> MdIsFenceClose(L[j], arg)
      [] kind = "item"  -> ~L[j].blank /\ L[j].indent < arg
      [] kind = "quote" -> ~L[j].quote
      [] kind = "table" -> MdStartsBlock(L, j) /\ ~MdIsTableStart(L, j)
      [] OTHER          -> MdInterrupts(L, j)

RECURSIVE MdScan(_, _, _, _)
\* The least j >= i at which the scan stops, Len(L) + 1 when none.
MdScan(kind, arg, L, i) ==
    IF i > Len(L) \/ MdStops(kind, arg, L, i) THEN i
    ELSE MdScan(kind, arg, L, i + 1)

MdHeadingOpen(n) ==
    CASE n = 1 -> "<h1>" [] n = 2 -> "<h2>" [] n = 3 -> "<h3>"
      [] n = 4 -> "<h4>" [] n = 5 -> "<h5>" [] OTHER -> "<h6>"

MdHeadingClose(n) ==
    CASE n = 1 -> "</h1>" [] n = 2 -> "</h2>" [] n = 3 -> "</h3>"
      [] n = 4 -> "</h4>" [] n = 5 -> "</h5>" [] OTHER -> "</h6>"

RECURSIVE MdCodeText(_)
MdCodeText(ls) ==
    IF ls = <<>> THEN <<>> ELSE Head(ls) \o <<NL>> \o MdCodeText(Tail(ls))

RECURSIVE MdRowHtml(_, _, _, _)
\* One table row of n cells, short rows filled with empty cells.
MdRowHtml(cells, c, n, tag) ==
    IF c > n THEN <<>>
    ELSE <<IF tag = "th" THEN "<th>" ELSE "<td>">>
         \o (IF c <= Len(cells) THEN MdInline(cells[c]) ELSE <<>>)
         \o <<IF tag = "th" THEN "</th>" ELSE "</td>", NL>>
         \o MdRowHtml(cells, c + 1, n, tag)

RECURSIVE MdBodyRows(_, _, _, _)
MdBodyRows(L, i, j, n) ==
    IF i >= j THEN <<>>
    ELSE <<"<tr>", NL>> \o MdRowHtml(L[i].cells, 1, n, "td")
         \o <<"</tr>", NL>> \o MdBodyRows(L, i + 1, j, n)

\* Remove up to n of the indent leading whitespace characters of line.
MdUnindent(line, indent, n) ==
    SubSeq(line, (IF indent < n THEN indent ELSE n) + 1, Len(line))

RECURSIVE MdDropTrailingBlank(_)
MdDropTrailingBlank(ls) ==
    IF ls # <<>> /\ IsEmptyLine(ls[Len(ls)])
    THEN MdDropTrailingBlank(SubSeq(ls, 1, Len(ls) - 1)) ELSE ls

RECURSIVE MdParseLines(_, _)
RECURSIVE MdParse(_, _, _)
RECURSIVE MdListItems(_, _, _)
RECURSIVE MdItemsHtml(_, _)

\* One list item: raw are its lines, item those without the blank lines
\* that end it, more the items after it.
MdItemRecord(i, raw, item, more) ==
    [items |-> <<item>> \o more.items,
     loose |-> \/ \E j \in 2..Len(item) : IsEmptyLine(item[j])
               \/ more.loose
               \/ (Len(item) < Len(raw) /\ more.items # <<>>),
     next  |-> IF more.items # <<>> THEN more.next ELSE i + Len(item)]

MdItemJoin(i, raw, more) ==
    MdItemRecord(i, raw, MdDropTrailingBlank(raw), more)

\* The lines of the item whose bullet is on line i, e the line after them.
MdItemRaw(L, i, k, e) ==
    <<TrimLeft(Tail(L[i].rest))>>
    \o [j \in 1..(e - i - 1) |->
           MdUnindent(L[i + j].text, L[i + j].indent, k + 2)]

MdItemAt(L, i, k, e) ==
    MdItemJoin(i, MdItemRaw(L, i, k, e), MdListItems(L, e, k))

\* The items of the list that starts at line i with bullet indentation k:
\* [items: the lines of each item, loose, next: the line after the list].
MdListItems(L, i, k) ==
    IF \/ i > Len(L)
       \/ ~L[i].bullet
       \/ L[i].indent >= k + 2
       \/ L[i].indent < k
    THEN [items |-> <<>>, loose |-> FALSE, next |-> i]
    ELSE MdItemAt(L, i, k, MdScan("item", k + 2, L, i + 1))

MdItemsHtml(items, loose) ==
    IF items = <<>> THEN <<>>
    ELSE <<"<li>">> \o MdParseLines(Head(items), ~loose) \o <<"</li>", NL>>
         \o MdItemsHtml(Tail(items), loose)

\* The lines of a fenced code block whose fence opens on line i and closes
\* on line j; open: the input ended before the closing fence.
MdFenceCode(body, open) ==
    IF open /\ body # <<>> /\ body[Len(body)] = <<>>
    THEN SubSeq(body, 1, Len(body) - 1) ELSE body

MdCodeHtml(code) ==
    <<"<pre>", "<code>">>
    \o (IF code = <<>> THEN <<NL>> ELSE MdCodeText(code))
    \o <<"</code>", "</pre>", NL>>

MdFenceBlock(L, i, j) ==
    [html |-> MdCodeHtml(MdFenceCode([k \in 1..(j - i - 1) |-> L[i + k].text],
                                     j > Len(L))),
     next |-> j + 1]

MdHeadingBlock(L, i, n) ==
    [html |-> <<MdHeadingOpen(n)>>
              \o MdInline(SubSeq(L[i].rest, n + 1, Len(L[i].rest)))
              \o <<MdHeadingClose(n), NL>>,
     next |-> i + 1]

\* A quote line without its marker and the space after it.
MdUnquote(r) == IF r # <<>> /\ r[1] = " " THEN Tail(r) ELSE r

MdQuoteBlock(L, i, j) ==
    [html |-> <<"<blockquote>", NL>>
              \o MdParseLines([k \in 1..(j - i) |->
                                  MdUnquote(Tail(L[i + k - 1].rest))], FALSE)
              \o <<"</blockquote>", NL>>,
     next |-> j]

MdListBlock(list) ==
    [html |-> <<"<ul>", NL>> \o MdItemsHtml(list.items, list.loose)
              \o <<"</ul>", NL>>,
     next |-> list.next]

MdTableBlock(L, i, j, n) ==
    [html |-> <<"<table>", NL, "<thead>", NL, "<tr>", NL>>
              \o MdRowHtml(L[i].cells, 1, n, "th")
              \o <<"</tr>", NL, "</thead>", NL>>
              \o (IF j > i + 2
                  THEN <<"<tbody>">> \o MdBodyRows(L, i + 2, j, n)
                       \o <<"</tbody>">>
                  ELSE <<>>)
              \o <<"</table>", NL>>,
     next |-> j]

\* tight: the lines are those of an item of a tight list, whose paragraphs
\* are rendered without <p>.
MdParagraphBlock(L, i, j, tight) ==
    [html |-> (IF tight THEN <<>> ELSE <<"<p>">>)
              \o MdInlineLines([k \in 1..(j - i) |-> L[i + k - 1].text])
              \o (IF tight THEN <<>> ELSE <<"</p>", NL>>),
     next |-> j]

\* The block that starts at the non-blank line i: [html, next], next the
\* line after the block.
MdBlock(L, i, tight) ==
    IF MdIsFenceOpen(L, i)
    THEN MdFenceBlock(L, i, MdScan("fence", L[i].fence, L, i + 1))
    ELSE IF L[i].level > 0
    THEN MdHeadingBlock(L, i, L[i].level)
    ELSE IF L[i].quote
    THEN MdQuoteBlock(L, i, MdScan("quote", 0, L, i + 1))
    ELSE IF L[i].bullet /\ L[i].indent <= 3
    THEN MdListBlock(MdListItems(L, i, L[i].indent))
    ELSE IF MdIsTableStart(L, i)
    THEN MdTableBlock(L, i, MdScan("table", 0, L, i + 2), Len(L[i].cells))
    ELSE MdParagraphBlock(L, i, MdScan("para", 0, L, i + 1), tight)

MdCons(L, tight, b) == b.html \o MdParse(L, b.next, tight)

\* The blocks of the lines L from line i on (1-based).
MdParse(L, i, tight) ==
    IF i > Len(L) THEN <<>>
    ELSE IF L[i].blank THEN MdParse(L, i + 1, tight)
    ELSE MdCons(L, tight, MdBlock(L, i, tight))

MdParseLines(lines, tight) == MdParse(MdLines(lines), 1, tight)

\* marked(newPart, options)
marked(newPart) == MdParseLines(SplitLines(newPart), FALSE)

\* ALLOWED_TAGS of the DOMPurify.sanitize call.
ALLOWED_TAGS ==
    {"h1", "h2", "h3", "h4", "h5", "h6", "p", "br", "strong", "em", "u",
     "del", "ul", "ol", "li", "blockquote", "pre", "code", "table", "thead",
     "tbody", "tr", "th", "td", "a", "img", "hr", "input", "label", "div",
     "span"}

\* DOMPurify.sanitize(html, {ALLOWED_TAGS, ...}): the tags outside the allow
\* list are removed, text is kept.
sanitize(html) ==
    SelectSeq(html, LAMBDA t :
        /\ IsOpenTag(t) => OpenTagName[t] \in ALLOWED_TAGS
        /\ IsCloseTag(t) => CloseTagName[t] \in ALLOWED_TAGS)

\* cleanHtml.replace(/<table>/g, '<table class="markdown-table">')
styleTables(html) ==
    [k \in 1..Len(html) |->
        IF html[k] = "<table>" THEN "<table class=markdown-table>" ELSE html[k]]

\* ---------------------------------------------------- Render Pipeline
\* The data() of the component.  log, ops and scans are not fields of the
\* component, they record what the running handler did: log each call of
\* appendNewContent with the place that made it ("boundary", "fallback",
\* "final"); ops what the forEach of appendNewContent did with each block
\* ("push", "merge", or "refuse" for the push made because the last block
\* holds an image), the index it wrote at and the html the last block had
\* before; scans each call of detectBlockBoundaries with its result.
Fresh ==
    [renderBlocks |-> <<>>, processedLength |-> 0, blockCounter |-> 0,
     accumulatedMarkdown |-> <<>>, log |-> <<>>, ops |-> <<>>, scans |-> <<>>,
     fault |-> "none"]

\* `md-block-${n}`
BlockId(n) == <<"md-block-", n>>

\* The html of this.renderBlocks[this.renderBlocks.length - 1], <<>> when
\* there is none.
LastHtml(c) ==
    IF Len(c.renderBlocks) > 0 THEN c.renderBlocks[Len(c.renderBlocks)].html
    ELSE <<>>

\* PushBlock with the counter left as it was: `md-block-${this.blockCounter}`.
PushBlockSameCounter(c, blockHtml, op) ==
    [c EXCEPT !.renderBlocks =
                  Append(@, [id |-> BlockId(c.blockCounter), html |-> blockHtml]),
              !.ops = Append(@, [op |-> op, at |-> Len(c.renderBlocks) + 1,
                                 before |-> LastHtml(c)])]

\* this.renderBlocks.push({id: `md-block-${this.blockCounter++}`, html})
PushBlock(c, blockHtml, op) ==
    [c EXCEPT !.renderBlocks =
                  Append(@, [id |-> BlockId(c.blockCounter), html |-> blockHtml]),
              !.blockCounter = @ + 1,
              !.ops = Append(@, [op |-> op, at |-> Len(c.renderBlocks) + 1,
                                 before |-> LastHtml(c)])]

\* AssignLast leaving the last block as it was: the merged block is not
\* assigned.
AssignLastDropping(c, mergedBlock) == c

\* AssignLast replacing the last block by a new one: the merged html under
\* a new id.
AssignLastNewId(c, mergedBlock) ==
    IF mergedBlock = Undefined THEN c
    ELSE [c EXCEPT !.renderBlocks[Len(c.renderBlocks)] =
                       [id |-> BlockId(c.blockCounter),
                        html |-> mergedBlock.html],
                   !.blockCounter = @ + 1,
                   !.ops = Append(@, [op |-> "merge",
                                      at |-> Len(c.renderBlocks),
                                      before |-> LastHtml(c)])]

\* if (mergedBlock) Object.assign(lastBlock, mergedBlock)
AssignLast(c, mergedBlock) ==
    IF mergedBlock = Undefined THEN c
    ELSE [c EXCEPT !.renderBlocks[Len(c.renderBlocks)] = mergedBlock,
                   !.ops = Append(@, [op |-> "merge",
                                      at |-> Len(c.renderBlocks),
                                      before |-> LastHtml(c)])]

\* MergeOrPush without the test of containsImage.
MergeOrPushAlwaysMerge(c, lastBlock, blockHtml) ==
    AssignLast(c, mergeBlocks(lastBlock, blockHtml))

\* The branch of the forEach body taken when shouldMergeBlocks holds.
MergeOrPush(c, lastBlock, blockHtml) ==
    IF containsImage(lastBlock.html) THEN PushBlock(c, blockHtml, "refuse")
    ELSE AssignLast(c, mergeBlocks(lastBlock, blockHtml))

\* The body of blocks.forEach in appendNewContent, for one block.
AppendBlock(c, blockHtml) ==
    IF Trim(blockHtml) = <<>> THEN c
    ELSE IF /\ Len(c.renderBlocks) > 0
            /\ shouldMergeBlocks(c.renderBlocks[Len(c.renderBlocks)].html,
                                 blockHtml)
    THEN MergeOrPush(c, c.renderBlocks[Len(c.renderBlocks)], blockHtml)
    ELSE PushBlock(c, blockHtml, "push")

RECURSIVE AppendBlocks(_, _)
AppendBlocks(c, blocks) ==
    IF blocks = <<>> THEN c
    ELSE AppendBlocks(AppendBlock(c, Head(blocks)), Tail(blocks))

\* DOMPurify.sanitize(newPart) of the catch block, with the default
\* configuration: script elements are removed, text is kept.
sanitizeDefault(dirty) ==
    SelectSeq(dirty, LAMBDA t : t \notin {"<script>", "</script>"})

\* RenderFailed storing nothing.
RenderFailedDropping(c, newPart) == c

\* The catch block of appendNewContent.
RenderFailed(c, newPart) == PushBlock(c, sanitizeDefault(newPart), "raw")

\* appendNewContent(newPart).  c.fault tells whether marked or
\* DOMPurify.sanitize throws in the try block of this call ("marked",
\* "sanitize") or neither does ("none").
appendNewContent(c, newPart, via) ==
    LET html       == marked(newPart)
        cleanHtml  == sanitize(html)
        styledHtml == styleTables(cleanHtml)
        blocks     == splitIntoCompleteBlocks(styledHtml)
        logged     == [c EXCEPT !.log =
                          Append(@, [chunk |-> newPart, via |-> via])]
    IN  IF c.fault # "none" THEN RenderFailed(logged, newPart)
        ELSE AppendBlocks(logged, blocks)

\* --------------------------------------------------- Stream Accumulator
RECURSIVE FlushBoundariesFromStart(_, _, _)
\* FlushBoundaries without lastIndex = boundaryIndex + 1: every chunk is cut
\* from the start of the buffer.
FlushBoundariesFromStart(c, blockBoundaries, lastIndex) ==
    IF blockBoundaries = <<>> THEN [c |-> c, lastIndex |-> lastIndex]
    ELSE LET boundaryIndex == Head(blockBoundaries)
             blockMarkdown == Substring(c.accumulatedMarkdown, 0,
                                        boundaryIndex + 1)
             c1 == IF Trim(blockMarkdown) # <<>>
                   THEN appendNewContent(c, blockMarkdown, "boundary")
                   ELSE c
         IN  FlushBoundariesFromStart(c1, Tail(blockBoundaries),
                                      boundaryIndex + 1)

RECURSIVE FlushBoundaries(_, _, _)
\* blockBoundaries.forEach(...) of processAccumulatedContent: [c, lastIndex].
FlushBoundaries(c, blockBoundaries, lastIndex) ==
    IF blockBoundaries = <<>> THEN [c |-> c, lastIndex |-> lastIndex]
    ELSE LET boundaryIndex == Head(blockBoundaries)
             blockMarkdown == Substring(c.accumulatedMarkdown, lastIndex,
                                        boundaryIndex + 1)
             c1 == IF Trim(blockMarkdown) # <<>>
                   THEN appendNewContent(c, blockMarkdown, "boundary")
                   ELSE c
         IN  FlushBoundaries(c1, Tail(blockBoundaries), boundaryIndex + 1)

\* this.accumulatedMarkdown = this.accumulatedMarkdown.substring(lastIndex)
KeepRemainder(c, flushed) ==
    [flushed.c EXCEPT !.accumulatedMarkdown =
        SubstringFrom(c.accumulatedMarkdown, flushed.lastIndex)]

\* The branch blockBoundaries.length > 0 of processAccumulatedContent.
ConsumeBoundaries(c, blockBoundaries) ==
    IF Len(blockBoundaries) > 0
    THEN KeepRemainder(c, FlushBoundaries(c, blockBoundaries, 0))
    ELSE c

\* const blockBoundaries = this.detectBlockBoundaries(this.accumulatedMarkdown)
Scanned(c, blockBoundaries) ==
    ConsumeBoundaries(
        [c EXCEPT !.scans = Append(@, [buffer |-> c.accumulatedMarkdown,
                                       boundaries |-> blockBoundaries])],
        blockBoundaries)

\* FallbackFlush comparing lastNewline with the size threshold instead of
\* the minimum offset.
FallbackFlushWrongOffset(c) ==
    IF StrLen(c.accumulatedMarkdown) > FlushThreshold
    THEN LET lastNewline == LastIndexOf(c.accumulatedMarkdown, NL)
         IN  IF lastNewline > FlushThreshold
             THEN LET blockMarkdown ==
                          Substring(c.accumulatedMarkdown, 0, lastNewline + 1)
                      c1 == appendNewContent(c, blockMarkdown, "fallback")
                  IN  [c1 EXCEPT !.accumulatedMarkdown =
                          SubstringFrom(c.accumulatedMarkdown, lastNewline + 1)]
             ELSE c
    ELSE c

\* The forced flush that ends processAccumulatedContent.
FallbackFlush(c) ==
    IF StrLen(c.accumulatedMarkdown) > FlushThreshold
    THEN LET lastNewline == LastIndexOf(c.accumulatedMarkdown, NL)
         IN  IF lastNewline > MinNewlineOffset
             THEN LET blockMarkdown ==
                          Substring(c.accumulatedMarkdown, 0, lastNewline + 1)
                      c1 == appendNewContent(c, blockMarkdown, "fallback")
                  IN  [c1 EXCEPT !.accumulatedMarkdown =
                          SubstringFrom(c.accumulatedMarkdown, lastNewline + 1)]
             ELSE c
    ELSE c

\* processAccumulatedContent()
processAccumulatedContent(c) ==
    IF c.accumulatedMarkdown = <<>> THEN c
    ELSE FallbackFlush(
             Scanned(c, detectBlockBoundaries(c.accumulatedMarkdown)))

\* ResetData without this.blockCounter = 0.
ResetDataKeepingCounter(c) ==
    [c EXCEPT !.renderBlocks = <<>>, !.processedLength = 0,
              !.accumulatedMarkdown = <<>>]

\* The reset both branches of handleContentUpdate make.
ResetData(c) ==
    [c EXCEPT !.renderBlocks = <<>>, !.processedLength = 0,
              !.blockCounter = 0, !.accumulatedMarkdown = <<>>]

\* handleContentUpdate(newContent)
handleContentUpdate(c, newContent) ==
    IF newContent = <<>> THEN ResetData(c)
    ELSE LET c1 == IF StrLen(newContent) < c.processedLength
                   THEN ResetData(c) ELSE c
             newPart == SubstringFrom(newContent, c1.processedLength)
             c2 == IF newPart # <<>>
                   THEN processAccumulatedContent(
                            [c1 EXCEPT !.accumulatedMarkdown = @ \o newPart])
                   ELSE c1
         IN  [c2 EXCEPT !.processedLength = StrLen(newContent)]

\* onCompleted without this.accumulatedMarkdown = ''.
onCompletedKeepingBuffer(c, completed) ==
    IF completed /\ c.accumulatedMarkdown # <<>>
    THEN IF Trim(c.accumulatedMarkdown) # <<>>
         THEN appendNewContent(c, c.accumulatedMarkdown, "final")
         ELSE c
    ELSE c

\* The handler of watch.isCompleted.
onCompleted(c, completed) ==
    IF completed /\ c.accumulatedMarkdown # <<>>
    THEN LET c1 == IF Trim(c.accumulatedMarkdown) # <<>>
                   THEN appendNewContent(c, c.accumulatedMarkdown, "final")
                   ELSE c
         IN  [c1 EXCEPT !.accumulatedMarkdown = <<>>]
    ELSE c

\* ------------------------------------------------------------ documents
RECURSIVE Doc(_)
\* The text whose lines are ls, each ended by a newline.
Doc(ls) == IF ls = <<>> THEN <<>> ELSE Head(ls) \o <<NL>> \o Doc(Tail(ls))

LText   == <<"a">>
LSent   == <<"a", ".">>
LBlank  == <<>>
LItem   == <<"-", " ", "a">>
LImgItem == <<"-", " ", "I">>
LSubItem == <<" ", " ", "-", " ", "a">>
LHead   == <<"#", " ", "a">>
LFence  == <<"'", "'", "'">>
LTilde  == <<"~", "~", "~">>
LImage  == <<"I">>
LRun    == <<"X">>
LTh     == <<"|", "a", "|">>
LSep    == <<"|", "-", "|">>
LRow    == <<"|", "a", "|">>
LRunRow == <<"|", "X", "|">>

\* The streams the producer may send.
Docs ==
    << Doc(<<LSent, LBlank, LText, LBlank, LText>>),
       Doc(<<LHead, LText>>),
       Doc(<<LItem, LItem, LBlank, LItem>>),
       Doc(<<LText, LBlank, LFence, LHead, LBlank, LItem, LTilde, LFence>>),
       Doc(<<LImage, LBlank, LBlank, LText>>),
       Doc(<<LImgItem, LSubItem, LBlank, LBlank, LText>>),
       Doc(<<LRun, LRun, LRun>>),
       Doc(<<LText>>) \o <<"X", "X", "X">>,
       Doc(<<LFence, LRun, LRun, LRun, LFence>>),
       Doc(<<LTh, LSep, LRow, LRow>>),
       Doc(<<LTh, LSep, LRunRow, LRunRow, LRunRow, LRunRow>>) >>

VARIABLES
    content,              \* the content prop
    isCompleted,          \* the isCompleted prop
    renderBlocks,         \* data: the Block Store
    processedLength,      \* data
    blockCounter,         \* data
    accumulatedMarkdown,  \* data: the unflushed buffer
    doc,                  \* the stream the producer is sending (index in Docs)
    resets,               \* how often the producer started a new stream
    deltas,               \* the deltas of this stream, in whole lines
    last,                 \* the watcher that ran last, or what failed in it
    log,                  \* the appendNewContent calls of the last handler
    ops,                  \* what the last handler did with each HTML block
    scans                 \* the detectBlockBoundaries calls of the last handler

vars == <<content, isCompleted, renderBlocks, processedLength, blockCounter,
          accumulatedMarkdown, doc, resets, deltas, last, log, ops, scans>>

\* The component's data as one record, its records of the last handler empty.
Data ==
    [renderBlocks |-> renderBlocks, processedLength |-> processedLength,
     blockCounter |-> blockCounter,
     accumulatedMarkdown |-> accumulatedMarkdown,
     log |-> <<>>, ops |-> <<>>, scans |-> <<>>, fault |-> "none"]

\* The variables take the values of the record c.
Becomes(c) ==
    /\ renderBlocks' = c.renderBlocks
    /\ processedLength' = c.processedLength
    /\ blockCounter' = c.blockCounter
    /\ accumulatedMarkdown' = c.accumulatedMarkdown
    /\ log' = c.log
    /\ ops' = c.ops
    /\ scans' = c.scans

\* The number of newlines of s.
CountLines(s) == Len(SelectSeq(s, LAMBDA ch : ch = NL))

\* The deltas of a stream as the number of lines of each, <<0>> as soon as
\* one delta did not start at the start of a line and end with a newline.
WholeLines == <<0>>
NextDeltas(ds, before, delta) ==
    IF /\ ds # WholeLines
       /\ delta # <<>>
       /\ delta[Len(delta)] = NL
       /\ (before = <<>> \/ before[Len(before)] = NL)
    THEN Append(ds, CountLines(delta))
    ELSE WholeLines

\* created: data(), then the immediate content watcher on the default ''.
Init ==
    /\ content = <<>>
    /\ isCompleted = FALSE
    /\ renderBlocks = <<>>
    /\ processedLength = 0
    /\ blockCounter = 0
    /\ accumulatedMarkdown = <<>>
    /\ doc \in 1..Len(Docs)
    /\ resets = 0
    /\ deltas = <<>>
    /\ last = "created"
    /\ log = <<>>
    /\ ops = <<>>
    /\ scans = <<>>

\* The producer appends the next k characters of its stream: watch.content.
Feed(k) ==
    /\ ~isCompleted
    /\ Len(content) + k <= Len(Docs[doc])
    /\ content' = SubSeq(Docs[doc], 1, Len(content) + k)
    /\ deltas' = NextDeltas(deltas, content,
                            SubSeq(Docs[doc], Len(content) + 1, Len(content) + k))
    /\ last' = "feed"
    /\ Becomes(handleContentUpdate(Data, content'))
    /\ UNCHANGED <<isCompleted, doc, resets>>

\* The producer signals the end of its stream: watch.isCompleted.
Complete ==
    /\ ~isCompleted
    /\ content = Docs[doc]
    /\ isCompleted' = TRUE
    /\ last' = "complete"
    /\ Becomes(onCompleted(Data, TRUE))
    /\ UNCHANGED <<content, doc, resets, deltas>>

\* The producer starts a new stream: content becomes empty.
Clear ==
    /\ resets < MaxResets
    /\ content # <<>>
    /\ content' = <<>>
    /\ isCompleted' = FALSE
    /\ resets' = resets + 1
    /\ deltas' = <<>>
    /\ doc' \in 1..Len(Docs)
    /\ last' = "clear"
    /\ Becomes(handleContentUpdate(Data, content'))

\* The producer starts a new stream whose first value is shorter than the
\* content seen so far.
Restart(d, k) ==
    /\ resets < MaxResets
    /\ k >= 1
    /\ k <= Len(Docs[d])
    /\ StrLen(SubSeq(Docs[d], 1, k)) < processedLength
    /\ SubSeq(Docs[d], 1, k) # content
    /\ content' = SubSeq(Docs[d], 1, k)
    /\ isCompleted' = FALSE
    /\ resets' = resets + 1
    /\ deltas' = NextDeltas(<<>>, <<>>, SubSeq(Docs[d], 1, k))
    /\ doc' = d
    /\ last' = "restart"
    /\ Becomes(handleContentUpdate(Data, content'))

\* The length of the longest stream.
MaxDocLen == 24

Next ==
    \/ \E k \in 1..MaxDocLen : Feed(k)
    \/ Complete
    \/ Clear
    \/ \E d \in 1..Len(Docs), k \in 1..MaxFirstLen : Restart(d, k)

Spec == Init /\ [][Next]_vars

\* ------------------------------------------- the detector on its own
\* The lines a buffer is made of.
ScanVocabulary == {LText, LBlank, LItem, LSubItem, LHead, LFence, LTilde}
\* Number of lines of the longest buffer.
MaxScanLines == 5

\* The component as created.
InitDetect == Init /\ doc = 1

\* detectBlockBoundaries runs on the buffer grown by line; partial: the
\* line is not yet ended by its newline.
Detect(line, partial) ==
    /\ CountLines(content) < MaxScanLines
    /\ IF content = <<>> THEN TRUE ELSE content[Len(content)] = NL
    /\ partial => line # <<>>
    /\ content' = content \o line \o (IF partial THEN <<>> ELSE <<NL>>)
    /\ scans' = <<[buffer |-> content',
                   boundaries |-> detectBlockBoundaries(content')]>>
    /\ last' = "detect"
    /\ UNCHANGED <<isCompleted, renderBlocks, processedLength, blockCounter,
                   accumulatedMarkdown, doc, resets, deltas, log, ops>>

NextDetect == \E line \in ScanVocabulary, partial \in BOOLEAN : Detect(line, partial)

SpecDetect == InitDetect /\ [][NextDetect]_vars

\* --------------------------------------- the pipeline with failures
\* What may throw in the try block of appendNewContent.
FaultModes == {"none", "marked", "sanitize"}

\* The streams fed while the converter or the sanitizer may fail.
FaultDocs == {d \in 1..Len(Docs) : Docs[d] \in
                 {Doc(<<LSent, LBlank, LText, LBlank, LText>>),
                  Doc(<<LItem, LItem, LBlank, LItem>>),
                  Doc(<<LHead, LText>>)}}

InitFault == Init /\ doc \in FaultDocs

\* watch.content, the calls of appendNewContent it makes failing as f says.
FeedFault(k, f) ==
    /\ ~isCompleted
    /\ Len(content) + k <= Len(Docs[doc])
    /\ content' = SubSeq(Docs[doc], 1, Len(content) + k)
    /\ deltas' = NextDeltas(deltas, content,
                            SubSeq(Docs[doc], Len(content) + 1, Len(content) + k))
    /\ last' = (IF f = "none" THEN "feed" ELSE f)
    /\ Becomes(handleContentUpdate([Data EXCEPT !.fault = f], content'))
    /\ UNCHANGED <<isCompleted, doc, resets>>

\* watch.isCompleted, its call of appendNewContent failing as f says.
CompleteFault(f) ==
    /\ ~isCompleted
    /\ content = Docs[doc]
    /\ isCompleted' = TRUE
    /\ last' = (IF f = "none" THEN "complete" ELSE f)
    /\ Becomes(onCompleted([Data EXCEPT !.fault = f], TRUE))
    /\ UNCHANGED <<content, doc, resets, deltas>>

NextFault ==
    \/ \E k \in 1..MaxDocLen, f \in FaultModes : FeedFault(k, f)
    \/ \E f \in FaultModes : CompleteFault(f)

SpecFault == InitFault /\ [][NextFault]_vars

\* ------------------------------------- the forEach body on its own
LQuote    == <<">", " ", "a">>
LQuoteGap == <<">">>
LCont     == <<" ", " ", "a">>

\* The blocks appendNewContent hands to its forEach for the chunk newPart.
RenderedBlocks(newPart) ==
    splitIntoCompleteBlocks(styleTables(sanitize(marked(newPart))))

\* Chunks of markdown: paragraphs, an image, a heading, tight and loose
\* lists, a list item of two paragraphs, a nested list, quotes, a table.
MergeChunks ==
    {Doc(<<LText>>), Doc(<<LSent>>), Doc(<<LImage>>), Doc(<<LHead>>),
     Doc(<<LItem>>), Doc(<<LItem, LBlank, LItem>>),
     Doc(<<LItem, LBlank, LCont>>), Doc(<<LItem, LSubItem>>),
     Doc(<<LQuote>>), Doc(<<LQuote, LQuoteGap, LQuote>>),
     Doc(<<LTh, LSep, LRow>>)}

\* The blocks the forEach body is run on: those rendered from MergeChunks.
BlockSet(blocks) == {blocks[k] : k \in 1..Len(blocks)}

MergeVocabulary == UNION {BlockSet(RenderedBlocks(m)) : m \in MergeChunks}

\* Number of blocks of the largest store a block is offered to.
MaxBlocks == 3

\* Number of tags and characters of the largest store a block is offered to.
MaxStoreTokens == 8

\* Number of tags and characters of the html of blocks.
StoreTokens(blocks) ==
    Len(Concat([i \in 1..Len(blocks) |-> blocks[i].html]))

InitMerge == Init /\ doc = 1

\* One run of the forEach body of appendNewContent, on blockHtml; log
\* records the block.
Offer(blockHtml) ==
    /\ Len(renderBlocks) < MaxBlocks
    /\ StoreTokens(renderBlocks) <= MaxStoreTokens
    /\ last' = "offer"
    /\ Becomes(AppendBlock(
           [Data EXCEPT !.log = <<[chunk |-> blockHtml, via |-> "block"]>>],
           blockHtml))
    /\ UNCHANGED <<content, isCompleted, doc, resets, deltas>>

NextMerge == \E blockHtml \in MergeVocabulary : Offer(blockHtml)

SpecMerge == InitMerge /\ [][NextMerge]_vars

\* ------------------------- the forEach body on the blocks of tables
\* Raw html tables of the markdown, which the converter hands on as they
\* are: a cell holding a paragraph, and a cell holding an image and a
\* paragraph.
RawTables ==
    {<<"<table>", "<tr>", "<td>", "<p>", "a", "</p>", "</td>", "</tr>",
       "</table>">>,
     <<"<table>", "<tr>", "<td>", "<img>", "<p>", "a", "</p>", "</td>",
       "</tr>", "</table>">>}

\* Chunks of markdown: a pipe table, a paragraph, a loose list.
TableChunks ==
    {Doc(<<LTh, LSep, LRow>>), Doc(<<LText>>), Doc(<<LItem, LBlank, LItem>>)}

\* The blocks the forEach body is run on: those of the raw tables and
\* those rendered from TableChunks.
TableVocabulary ==
    UNION {BlockSet(splitIntoCompleteBlocks(styleTables(sanitize(h)))) :
               h \in RawTables}
    \cup UNION {BlockSet(RenderedBlocks(m)) : m \in TableChunks}

NextTable == \E blockHtml \in TableVocabulary : Offer(blockHtml)

SpecTable == InitMerge /\ [][NextTable]_vars

\* ------------------------------------------- the splitter on its own
\* The elements the sanitized html is made of: a paragraph, a paragraph
\* holding an image, a heading, and the elements and the newline that raw
\* html lines of the markdown put between the blocks.
SplitElements ==
    {<<"<p>", "a", "</p>">>, <<"<p>", "<img>", "</p>">>,
     <<"<h1>", "a", "</h1>">>, <<"<img>">>, <<"<br>">>, <<"<hr>">>,
     <<"<input>">>, <<NL>>}

\* Number of tags and characters of the longest html handed to the splitter.
MaxHtmlLen == 6

\* The html handed to the splitter last.
SplitHtml == IF log = <<>> THEN <<>> ELSE log[1].chunk

\* The blocks as records of what the splitter returned.
SplitRecords(blocks) ==
    [k \in 1..Len(blocks) |-> [op |-> "split", at |-> k, html |-> blocks[k]]]

InitSplit == Init /\ doc = 1

\* splitIntoCompleteBlocks runs on the html grown by element; log records
\* the html and ops the blocks returned.
Split(element) ==
    /\ Len(SplitHtml) + Len(element) <= MaxHtmlLen
    /\ log' = <<[chunk |-> SplitHtml \o element, via |-> "split"]>>
    /\ ops' = SplitRecords(splitIntoCompleteBlocks(SplitHtml \o element))
    /\ last' = "split"
    /\ UNCHANGED <<content, isCompleted, renderBlocks, processedLength,
                   blockCounter, accumulatedMarkdown, doc, resets, deltas,
                   scans>>

NextSplit == \E element \in SplitElements : Split(element)

SpecSplit == InitSplit /\ [][NextSplit]_vars

\* ------------------------------------------------------------- claims
\* The html of the entries of a Block Store, in order.
Htmls(blocks) == [i \in 1..Len(blocks) |-> blocks[i].html]

\* The step stays within one stream: the producer did not reset.
SameStream == resets' = resets

\* Whether the running handler merged into a block an earlier handler stored.
MergedIntoStored ==
    \E k \in 1..Len(ops) :
        /\ ops[k].op = "merge"
        /\ \A j \in 1..Len(ops) : ops[j].op # "merge" => ops[j].at # ops[k].at

\* C1: within one stream the id of every stored block stays as it is: no
\* append, merge or finalize removes a block or changes its id.
C1_IdStability ==
    [][SameStream =>
          /\ Len(renderBlocks') >= Len(renderBlocks)
          /\ \A i \in 1..Len(renderBlocks) :
                 renderBlocks'[i].id = renderBlocks[i].id]_vars

\* A handler merged new html into a block stored by an earlier handler.
C1_Witness == last \in {"feed", "complete"} /\ MergedIntoStored

\* C2: a stored block whose html holds an <img> is never changed by a later
\* step of the stream; no merge is made into a last block that holds an
\* image, and the block refused that way is stored as a new entry under an
\* id no earlier entry has.
C2_ImageFreeze ==
    [][/\ SameStream =>
              \A i \in 1..Len(renderBlocks) :
                  containsImage(renderBlocks[i].html) =>
                      /\ i <= Len(renderBlocks')
                      /\ renderBlocks'[i] = renderBlocks[i]
       /\ \A k \in 1..Len(ops') :
              /\ ops'[k].op = "merge" => ~containsImage(ops'[k].before)
              /\ ops'[k].op = "refuse" =>
                     /\ ops'[k].at <= Len(renderBlocks')
                     /\ renderBlocks'[ops'[k].at - 1].html = ops'[k].before
                     /\ \A j \in 1..(ops'[k].at - 1) :
                            renderBlocks'[j].id # renderBlocks'[ops'[k].at].id
      ]_vars

\* A block that would have merged into a last block holding an image was
\* stored as a new entry.
C2_Witness ==
    \E k \in 1..Len(ops) :
        /\ ops[k].op = "refuse"
        /\ containsImage(renderBlocks[ops[k].at - 1].html)

RECURSIVE FenceSpans(_, _, _, _, _)
\* The fenced code blocks of lines from line i on, each as <<start, end>>:
\* the offset of the first character of the opening fence line and the
\* offset of the end of the closing fence line.  off is the offset of line
\* i, marker the marker of the fence open at line i ("" when none is) and
\* start the offset of its opening line.
FenceSpans(lines, i, off, marker, start) ==
    IF i > Len(lines) THEN {}
    ELSE IF marker = ""
    THEN FenceSpans(lines, i + 1, off + StrLen(lines[i]) + 1,
                    FenceMarker(lines[i]), off)
    ELSE IF FenceMarker(lines[i]) = marker
    THEN {<<start, off + StrLen(lines[i])>>}
         \cup FenceSpans(lines, i + 1, off + StrLen(lines[i]) + 1, "", 0)
    ELSE FenceSpans(lines, i + 1, off + StrLen(lines[i]) + 1, marker, start)

\* The fenced code blocks of a buffer that are opened and closed.
ClosedFences(buffer) == FenceSpans(SplitLines(buffer), 1, 0, "", 0)

\* C3: detectBlockBoundaries returns no offset strictly between the start
\* of the opening line and the end of the closing line of a fenced code
\* block of its buffer, whatever the lines between them are.
C3_NoBoundaryInsideFence ==
    \A k \in 1..Len(scans) :
        \A b \in 1..Len(scans[k].boundaries) :
            \A f \in ClosedFences(scans[k].buffer) :
                ~(f[1] < scans[k].boundaries[b] /\ scans[k].boundaries[b] < f[2])

\* The detector ran on a buffer whose fence holds a heading-like line, two
\* blank lines and a list-like line after text, and it returned boundaries.
C3_Witness ==
    /\ last = "detect"
    /\ Len(scans) = 1
    /\ scans[1].buffer = Doc(<<LFence, LHead, LBlank, LItem, LFence>>)
    /\ scans[1].boundaries # <<>>

RECURSIVE OpenMarker(_, _, _)
\* The marker of the fence open after the lines i.. of lines, given the
\* marker of the fence open before line i ("" when none is).
OpenMarker(lines, i, marker) ==
    IF i > Len(lines) THEN marker
    ELSE IF marker = "" THEN OpenMarker(lines, i + 1, FenceMarker(lines[i]))
    ELSE IF FenceMarker(lines[i]) = marker THEN OpenMarker(lines, i + 1, "")
    ELSE OpenMarker(lines, i + 1, marker)

\* The text ends inside a fenced code block that is not closed.
EndsInsideFence(text) == OpenMarker(SplitLines(text), 1, "") # ""

\* What the stream has handed to the Render Pipeline so far.
Forwarded ==
    Substring(content, 0, StrLen(content) - StrLen(accumulatedMarkdown))

\* The last handler made the size-based fallback flush.
FellBack == \E k \in 1..Len(log) : log[k].via = "fallback"

\* C4: the size-based fallback flush never forwards a chunk that ends
\* inside a fenced code block of the stream that is not yet closed.
C4_FallbackOutsideFence ==
    (last = "feed" /\ FellBack) => ~EndsInsideFence(Forwarded)

\* The final store of the content fed in one single append, then finalize.
OneShot == onCompleted(handleContentUpdate(Fresh, content), TRUE).renderBlocks

\* C5: a completed stream, however it was cut into deltas, leaves the same
\* html sequence in the Block Store as its content fed in one single append
\* followed by finalize.
C5_ChunkingIndependence ==
    isCompleted => Htmls(renderBlocks) = Htmls(OneShot)

\* Number of tokens of html that open a tag named in names.
CountOpen(html, names) ==
    Cardinality({i \in 1..Len(html) : OpensOneOf(html[i], names)})

\* The indices of the stored blocks that begin with a tag named in names.
BlocksOf(names) ==
    {i \in 1..Len(renderBlocks) :
        BeginsWithOpen(Trim(renderBlocks[i].html), names)}

\* C6: two list items fed as separate deltas, then a delta holding one
\* blank line, then a third item of the same indentation, then finalize,
\* leave exactly one list block in the Block Store, holding three items.
C6_ListContinuation ==
    (isCompleted /\ content = Doc(<<LItem, LItem, LBlank, LItem>>)
                 /\ deltas = <<1, 1, 1, 1>>) =>
        /\ Cardinality(BlocksOf(ListTags)) = 1
        /\ \A i \in BlocksOf(ListTags) :
               CountOpen(renderBlocks[i].html, {"li"}) = 3

\* The stream is a table fed as its header and separator rows in one delta
\* and then its data rows one delta each, at least one of them fed.
TableFedByRow ==
    /\ Len(deltas) >= 2
    /\ deltas[1] = 2
    /\ \A k \in 2..Len(deltas) : deltas[k] = 1
    /\ StartsWith(content, Doc(<<LTh, LSep>>))

\* C7: a table fed as its header and separator rows and then one data row
\* per delta leaves, once the stream is completed, exactly one table block
\* in the Block Store, with as many data rows as were fed and under the id
\* it was first stored under.
C7_TableGrowth ==
    (isCompleted /\ TableFedByRow) =>
        /\ Cardinality(BlocksOf({"table"})) = 1
        /\ \A i \in BlocksOf({"table"}) :
               /\ CountOpen(renderBlocks[i].html, {"td"}) = Len(deltas) - 1
               /\ renderBlocks[i].id = BlockId(i - 1)

\* The new content makes handleContentUpdate reset: it is empty or shorter
\* than the length seen so far.
ResetsOn(newContent) ==
    newContent = <<>> \/ StrLen(newContent) < processedLength

\* C8: when the content handed to handleContentUpdate is empty or shorter
\* than processedLength, the Block Store, the buffer, the id counter and
\* processedLength are what the new content alone gives a component just
\* created: nothing of the earlier stream is left.
C8_Reset ==
    [][(content' # content /\ ResetsOn(content')) =>
          LET fresh == handleContentUpdate(Fresh, content')
          IN  /\ renderBlocks' = fresh.renderBlocks
              /\ accumulatedMarkdown' = fresh.accumulatedMarkdown
              /\ blockCounter' = fresh.blockCounter
              /\ processedLength' = fresh.processedLength]_vars

\* A shorter content restarted the stream and its blocks count from 0.
C8_Witness ==
    /\ last = "restart"
    /\ renderBlocks # <<>>
    /\ renderBlocks[1].id = BlockId(0)
    /\ blockCounter = Len(renderBlocks)

\* Plain text: letters and sentence ends on lines none of which is blank.
PlainText(text) ==
    /\ \A i \in 1..Len(text) : text[i] \in {"a", ".", "X", NL}
    /\ \A i \in 1..Len(text) :
           text[i] = NL => (i > 1 /\ text[i - 1] # NL)

\* The buffer the last handler worked on exceeded the size threshold.
Overflowed ==
    /\ last = "feed"
    /\ PlainText(content)
    /\ Len(scans) = 1
    /\ StrLen(scans[1].buffer) > FlushThreshold

\* The last handler forwarded the buffer up to its last newline and kept
\* the rest.
FlushedAtNewline ==
    \E k \in 1..Len(log) :
        /\ log[k].via = "fallback"
        /\ log[k].chunk[Len(log[k].chunk)] = NL
        /\ log[k].chunk \o accumulatedMarkdown = scans[1].buffer
        /\ \A i \in 1..Len(accumulatedMarkdown) : accumulatedMarkdown[i] # NL

\* C9 as stated: whenever plain text without blank lines and fences makes
\* the buffer exceed 1000 characters, a chunk ending at a newline is
\* forwarded.
C9_OverflowFallback == Overflowed => FlushedAtNewline

\* C9, amended: whenever plain text without blank lines and fences makes
\* the buffer exceed 1000 characters and the last newline of the buffer is
\* at an offset greater than 100, the chunk ending at that newline is
\* forwarded; otherwise nothing is forwarded.
C9_OverflowFallbackBeyondMinimum ==
    Overflowed =>
        IF LastIndexOf(scans[1].buffer, NL) > MinNewlineOffset
        THEN FlushedAtNewline
        ELSE log = <<>> /\ accumulatedMarkdown = scans[1].buffer

\* Plain text overflowed the buffer and was forwarded up to its last newline.
C9_Witness == Overflowed /\ FlushedAtNewline /\ renderBlocks # <<>>

\* The ids of the Block Store are pairwise distinct.
DistinctIds ==
    \A i, j \in 1..Len(renderBlocks) :
        i # j => renderBlocks[i].id # renderBlocks[j].id

\* C10: the ids of the Block Store are pairwise distinct in every state;
\* within one stream no step removes or reorders entries, none but the
\* last entry is changed, and the last entry is changed only by a merge.
C10_StoreFrame ==
    /\ []DistinctIds
    /\ [][SameStream =>
             /\ Len(renderBlocks') >= Len(renderBlocks)
             /\ \A i \in 1..(Len(renderBlocks) - 1) :
                    renderBlocks'[i] = renderBlocks[i]
             /\ (/\ renderBlocks # <<>>
                 /\ renderBlocks'[Len(renderBlocks)]
                        # renderBlocks[Len(renderBlocks)]) =>
                    \E k \in 1..Len(ops') :
                        /\ ops'[k].op = "merge"
                        /\ ops'[k].at = Len(renderBlocks)
                        /\ ops'[k].before
                               = renderBlocks[Len(renderBlocks)].html]_vars

\* A handler rewrote the last block an earlier handler stored while other
\* blocks stood before it.
C10_Witness ==
    /\ Len(renderBlocks) >= 2
    /\ DistinctIds
    /\ \E k \in 1..Len(ops) :
           /\ ops[k].op = "merge"
           /\ ops[k].at >= 2
           /\ \A j \in 1..Len(ops) : ops[j].op = "merge"

\* The number of characters of the stream handed on or dropped as blank:
\* the source offset the buffer starts at.
FlushedUpTo == StrLen(content) - StrLen(accumulatedMarkdown)

RECURSIVE InOrder(_, _)
\* The chunks are pieces of text, one after the other in this order, with
\* nothing but whitespace before, between and behind them.
InOrder(text, chunks) ==
    IF chunks = <<>> THEN Trim(text) = <<>>
    ELSE \/ /\ Head(chunks) # <<>>
            /\ StartsWith(text, Head(chunks))
            /\ InOrder(SubSeq(text, Len(Head(chunks)) + 1, Len(text)),
                       Tail(chunks))
         \/ /\ text # <<>>
            /\ Head(text) \in Whitespace
            /\ InOrder(Tail(text), chunks)

\* The chunks a handler forwarded, in the order of its calls.
Chunks(entries) == [k \in 1..Len(entries) |-> entries[k].chunk]

\* C11: the chunks a handler forwards are, in the order forwarded, pieces of
\* the source one after the other, starting where the previous handler
\* stopped and ending where the buffer now starts: no chunk comes from text
\* before a chunk forwarded earlier.
C11_SourceOrder ==
    [][(content' # <<>>) =>
          LET from == IF SameStream THEN FlushedUpTo ELSE 0
          IN  /\ FlushedUpTo' >= from
              /\ InOrder(Substring(content', from, FlushedUpTo'),
                         Chunks(log'))]_vars

\* One handler forwarded several chunks and stored a block for each.
C11_Witness ==
    /\ last = "feed"
    /\ Len(log) >= 2
    /\ Len(renderBlocks) >= 2

\* C12: when the completion signal becomes true, the whole buffer is
\* forwarded as one final chunk whatever it holds, unless it is whitespace
\* only, and the buffer is empty afterwards, so that all of the content has
\* been forwarded or dropped as blank.
C12_Finalize ==
    [][(isCompleted' /\ ~isCompleted) =>
          /\ accumulatedMarkdown' = <<>>
          /\ FlushedUpTo' = StrLen(content')
          /\ IF Trim(accumulatedMarkdown) # <<>>
             THEN log' = <<[chunk |-> accumulatedMarkdown, via |-> "final"]>>
             ELSE log' = <<>>]_vars

\* The completion signal forwarded a buffer that opens a fence and does not
\* close it.
C12_Witness ==
    /\ last = "complete"
    /\ isCompleted
    /\ Len(log) = 1
    /\ log[1].via = "final"
    /\ EndsInsideFence(log[1].chunk)
    /\ accumulatedMarkdown = <<>>

\* The last handler called appendNewContent and its try block failed.
Failed == last \in FaultModes \ {"none"} /\ log # <<>>

\* C13: when the converter or the sanitizer fails on the chunks of a
\* handler, the handler ends as it does without the failure (the buffer and
\* processedLength move on), every block stored before is unchanged, and
\* for each chunk exactly one block is stored, under an id no earlier entry
\* has, holding the sanitized raw text of the chunk.
C13_GracefulDegradation ==
    [][Failed' =>
          LET sound == IF isCompleted' # isCompleted
                       THEN onCompleted(Data, TRUE)
                       ELSE handleContentUpdate(Data, content')
          IN  /\ accumulatedMarkdown' = sound.accumulatedMarkdown
              /\ processedLength' = sound.processedLength
              /\ Len(renderBlocks') = Len(renderBlocks) + Len(log')
              /\ SubSeq(renderBlocks', 1, Len(renderBlocks)) = renderBlocks
              /\ Len(ops') = Len(log')
              /\ \A k \in 1..Len(log') :
                     LET at == Len(renderBlocks) + k
                     IN  /\ ops'[k].op = "raw"
                         /\ ops'[k].at = at
                         /\ renderBlocks'[at].html
                                = sanitizeDefault(log'[k].chunk)
                         /\ \A j \in 1..(at - 1) :
                                renderBlocks'[j].id # renderBlocks'[at].id
      ]_vars

\* A chunk failed to render after another had been rendered and stored.
C13_Witness ==
    /\ Failed
    /\ \E k \in 1..Len(ops) : ops[k].op = "raw" /\ ops[k].at >= 2
    /\ \E i \in 1..Len(renderBlocks) : HasOpen(renderBlocks[i].html, {"p", "ul"})

\* The html is one <p>...</p> span.
IsParagraphSpan(html) ==
    LET t == Trim(html)
    IN  Len(t) >= 2 /\ t[1] = "<p>" /\ t[Len(t)] = "</p>"

\* What a paragraph span holds between its tags.
InnerOf(html) == SubSeq(Trim(html), 2, Len(Trim(html)) - 1)

\* The text of html ends in . ! ? or one of their CJK forms.
EndsInSentenceMark(html) ==
    LET text == Trim(SelectSeq(html, LAMBDA t : ~IsTag(t)))
    IN  /\ text # <<>>
        /\ text[Len(text)] \in {".", "!", "?", "fullwidth-stop",
                                "fullwidth-!", "fullwidth-?"}

\* The html holds an image.
HoldsImage(html) == \E i \in 1..Len(html) : html[i] = "<img>"

\* The html opens an element named in names and does not close it.
OpenElement(html, names) ==
    /\ \E i \in 1..Len(html) : OpensOneOf(html[i], names)
    /\ ~\E i \in 1..Len(html) : ClosesOneOf(html[i], names)

\* The last block of the store, before the step.
StoredLast == renderBlocks[Len(renderBlocks)]

\* What C14 says of a step that offers a paragraph block to a store.
ParagraphRule ==
    IF /\ IsParagraphSpan(StoredLast.html)
       /\ ~EndsInSentenceMark(StoredLast.html)
       /\ ~HoldsImage(StoredLast.html)
    THEN renderBlocks' =
             [renderBlocks EXCEPT ![Len(renderBlocks)].html =
                 <<"<p>">> \o InnerOf(StoredLast.html)
                           \o InnerOf(log'[1].chunk) \o <<"</p>">>]
    ELSE renderBlocks' =
             Append(renderBlocks, [id |-> BlockId(blockCounter),
                                   html |-> log'[1].chunk])

\* The step offers a paragraph block to a store that is not empty.
OffersParagraph ==
    /\ renderBlocks # <<>>
    /\ Len(log') = 1
    /\ IsParagraphSpan(log'[1].chunk)

\* C14 as stated: a paragraph block is merged into the last stored block
\* exactly when that block is a <p>...</p> span whose text does not end in
\* a sentence mark and which holds no image, the merged html being the two
\* contents in one paragraph; otherwise it is appended.
C14_ParagraphMerge == [][OffersParagraph => ParagraphRule]_vars

\* C14, amended: the same, when the last stored block is not an open list
\* or an open blockquote (these take a paragraph by their own rules).
C14_ParagraphMergeOutsideOpenBlocks ==
    [][(/\ OffersParagraph
        /\ ~OpenElement(StoredLast.html, {"ul", "ol"})
        /\ ~OpenElement(StoredLast.html, {"blockquote"}))
          => ParagraphRule]_vars

\* A paragraph was merged into an unfinished paragraph.
C14_Witness ==
    /\ last = "offer"
    /\ Len(ops) = 1
    /\ ops[1].op = "merge"
    /\ IsParagraphSpan(ops[1].before)
    /\ IsParagraphSpan(log[1].chunk)
    /\ renderBlocks[ops[1].at].html
           = <<"<p>">> \o InnerOf(ops[1].before)
                       \o InnerOf(log[1].chunk) \o <<"</p>">>

\* The html is a list item, or a list span, and nothing else.
IsListItems(html) ==
    LET t == Trim(html)
    IN  /\ Len(t) >= 2
        /\ \/ t[1] = "<li>" /\ t[Len(t)] = "</li>"
           \/ t[1] = "<ul>" /\ t[Len(t)] = "</ul>"
           \/ t[1] = "<ol>" /\ t[Len(t)] = "</ol>"

\* The last step merged a block into a last stored block that was an open
\* list.
MergedIntoOpenList ==
    /\ last = "offer"
    /\ Len(ops) = 1
    /\ ops[1].op = "merge"
    /\ ops[1].at = Len(renderBlocks)
    /\ OpenElement(ops[1].before, {"ul", "ol"})

\* C15: after a block has been merged into a last stored block that is an
\* open list, the next block of list items offered is merged into that same
\* stored block as well.
C15_OpenListStaysOpen ==
    [][(/\ MergedIntoOpenList
        /\ Len(log') = 1
        /\ IsListItems(log'[1].chunk)) =>
          /\ Len(renderBlocks') = Len(renderBlocks)
          /\ renderBlocks'[Len(renderBlocks)].id = StoredLast.id
          /\ renderBlocks'[Len(renderBlocks)].html # StoredLast.html]_vars

\* The elements that have no closing tag.
VoidTags == {"img", "hr", "br", "input"}

RECURSIVE BalancedFrom(_, _, _)
\* Whether the tags of html from position i on close, in order, the
\* elements of stack (innermost last) and those they open themselves.
BalancedFrom(html, i, stack) ==
    IF i > Len(html) THEN stack = <<>>
    ELSE IF IsOpenTag(html[i])
    THEN IF OpenTagName[html[i]] \in VoidTags
         THEN BalancedFrom(html, i + 1, stack)
         ELSE BalancedFrom(html, i + 1, Append(stack, OpenTagName[html[i]]))
    ELSE IF IsCloseTag(html[i])
    THEN /\ stack # <<>>
         /\ stack[Len(stack)] = CloseTagName[html[i]]
         /\ BalancedFrom(html, i + 1, SubSeq(stack, 1, Len(stack) - 1))
    ELSE BalancedFrom(html, i + 1, stack)

\* Every closing tag of html closes the element opened last and no element
\* stays open.
Balanced(html) == BalancedFrom(html, 1, <<>>)

\* The html the splitter is called with for the chunk newPart.
SplitterInput(newPart) == styleTables(sanitize(marked(newPart)))

\* C16: for every chunk the pipeline renders, the html handed to
\* splitIntoCompleteBlocks being tag-balanced, every block it returns is
\* tag-balanced: a tag opened inside an open top-level block starts no new
\* block.
C16_SplitterCompleteness ==
    \A k \in 1..Len(log) :
        (log[k].via # "block" /\ Balanced(SplitterInput(log[k].chunk))) =>
            \A b \in BlockSet(splitIntoCompleteBlocks(
                                  SplitterInput(log[k].chunk))) : Balanced(b)

\* C17: the converter's output being tag-balanced for every chunk, the html
\* of every entry of the Block Store is tag-balanced.
C17_StoreBalanced ==
    (\A k \in 1..Len(log) :
         log[k].via # "block" => Balanced(marked(log[k].chunk))) =>
        \A i \in 1..Len(renderBlocks) : Balanced(renderBlocks[i].html)

\* The lines of the buffer the detector ran on, and the offsets it returned.
ScannedLines == SplitLines(scans[1].buffer)
ScannedBoundaries ==
    {scans[1].boundaries[b] : b \in 1..Len(scans[1].boundaries)}

RECURSIVE LineStart(_, _)
\* The offset of the first character of line i (1-based) of lines.
LineStart(lines, i) ==
    IF i = 1 THEN 0 ELSE LineStart(lines, i - 1) + StrLen(lines[i - 1]) + 1

\* Line i of lines is blank and ended by its newline.
BlankLineAt(lines, i) ==
    i >= 1 /\ i < Len(lines) /\ Trim(lines[i]) = <<>>

\* The offset behind which nothing but blank lines follows line i until the
\* next content: the start of the next line that is not blank, or the end.
NextContentStart(lines, i) ==
    IF \E j \in (i + 1)..Len(lines) : Trim(lines[j]) # <<>>
    THEN LineStart(lines,
             CHOOSE j \in (i + 1)..Len(lines) :
                 /\ Trim(lines[j]) # <<>>
                 /\ \A m \in (i + 1)..(j - 1) : Trim(lines[m]) = <<>>)
    ELSE LineStart(lines, Len(lines)) + StrLen(lines[Len(lines)]) + 1

\* None of the lines before line i is a list item or a fence line.
NoListNoFenceBefore(lines, i) ==
    \A j \in 1..(i - 1) : ~IsListLine(lines[j]) /\ FenceMarker(lines[j]) = ""

\* C18: in a detection pass a blank line that follows content which is
\* neither a list nor a fence is answered by a boundary between the end of
\* that content and the start of whatever follows the blank lines.
C18_BlankLineCloses ==
    (last = "detect" /\ Len(scans) = 1) =>
        \A i \in 2..Len(ScannedLines) :
            (/\ BlankLineAt(ScannedLines, i)
             /\ Trim(ScannedLines[i - 1]) # <<>>
             /\ NoListNoFenceBefore(ScannedLines, i)) =>
                \E b \in ScannedBoundaries :
                    /\ b >= LineStart(ScannedLines, i) - 1
                    /\ b < NextContentStart(ScannedLines, i)

\* A list is open at the blank line i of lines: an item line stands before
\* it with nothing but non-blank lines between, and no fence line before.
ListOpenAt(lines, i) ==
    /\ \A m \in 1..i : FenceMarker(lines[m]) = ""
    /\ \E j \in 1..(i - 1) :
           /\ IsListLine(lines[j])
           /\ IndentOf(lines[i + 1]) >= IndentOf(lines[j])
           /\ \A m \in (j + 1)..(i - 1) : Trim(lines[m]) # <<>>

\* C19: in a detection pass no boundary is recorded at a blank line inside
\* an open list that is immediately followed by a list item of the same or
\* a deeper indentation, whatever lines the list held before it.
C19_ListStaysOpen ==
    (last = "detect" /\ Len(scans) = 1) =>
        \A i \in 2..(Len(ScannedLines) - 1) :
            (/\ BlankLineAt(ScannedLines, i)
             /\ IsListLine(ScannedLines[i + 1])
             /\ ListOpenAt(ScannedLines, i)) =>
                \A b \in ScannedBoundaries :
                    /\ b # LineStart(ScannedLines, i) - 1
                    /\ b # LineStart(ScannedLines, i)

\* Line i of lines opens a fence, text stands before it, directly or with
\* one blank line between, and nothing but text and blank lines precede it.
FenceAfterText(lines, i) ==
    /\ i >= 2
    /\ FenceMarker(lines[i]) # ""
    /\ \A j \in 1..(i - 1) :
           /\ ~IsListLine(lines[j])
           /\ ~IsHeadingLine(lines[j])
           /\ FenceMarker(lines[j]) = ""
    /\ \/ Trim(lines[i - 1]) # <<>>
       \/ i >= 3 /\ Trim(lines[i - 2]) # <<>>

\* C20: in a detection pass a line that opens a fence after content that is
\* not a list is answered by a boundary immediately before the fence line,
\* with or without a blank line between the content and the fence.
C20_FenceClosesPrior ==
    (last = "detect" /\ Len(scans) = 1) =>
        \A i \in 2..Len(ScannedLines) :
            FenceAfterText(ScannedLines, i) =>
                LineStart(ScannedLines, i) - 1 \in ScannedBoundaries

\* The offset of the end of line i of lines (of its newline, when it has one).
LineEnd(lines, i) == LineStart(lines, i) + StrLen(lines[i])

\* The marker of the fence that is open when line i of lines is met.
MarkerOpenAt(lines, i) == OpenMarker(SubSeq(lines, 1, i - 1), 1, "")

\* C21: in a detection pass the end of the line that closes a fence with
\* the marker that opened it is a boundary, and that line ends the fence;
\* a line met inside a fence that does not start with the marker that
\* opened it, the other marker included, records nothing and leaves the
\* fence open.
C21_FenceClosing ==
    (last = "detect" /\ Len(scans) = 1) =>
        /\ \A f \in ClosedFences(scans[1].buffer) : f[2] \in ScannedBoundaries
        /\ \A i \in 1..Len(ScannedLines) :
               (/\ MarkerOpenAt(ScannedLines, i) # ""
                /\ FenceMarker(ScannedLines[i]) # MarkerOpenAt(ScannedLines, i))
               => \A b \in ScannedBoundaries :
                      \/ b < LineStart(ScannedLines, i) - 1
                      \/ b > LineEnd(ScannedLines, i)

\* The detector ran on a fence opened by one marker that holds a line of
\* the other marker and is closed by the first, and returned the end of
\* the closing line alone.
C21_Witness ==
    /\ last = "detect"
    /\ Len(scans) = 1
    /\ scans[1].buffer = Doc(<<LFence, LTilde, LFence>>)
    /\ scans[1].boundaries = <<11>>

RECURSIVE TrackedIndent(_, _, _, _, _)
\* The indentation tracked for the list that is open when line i of lines
\* is met, -1 when no list is open, from line k on; marker is the marker
\* of the fence open at line k and indent the indentation tracked there.
\* Fence lines and the lines of a fence leave the list alone; a list item
\* opens a list or lowers the tracked indentation; a heading-shaped line
\* and a text line leave an open list open; a blank line closes the list
\* unless the next line is an item of the same or a deeper indentation.
TrackedIndent(lines, k, i, marker, indent) ==
    IF k >= i THEN indent
    ELSE IF FenceMarker(lines[k]) # ""
    THEN TrackedIndent(lines, k + 1, i,
             IF marker = "" THEN FenceMarker(lines[k])
             ELSE IF FenceMarker(lines[k]) = marker THEN "" ELSE marker,
             indent)
    ELSE IF marker # "" THEN TrackedIndent(lines, k + 1, i, marker, indent)
    ELSE IF IsHeadingLine(lines[k]) /\ indent = -1
    THEN TrackedIndent(lines, k + 1, i, marker, indent)
    ELSE IF Trim(lines[k]) # <<>> /\ IsListLine(lines[k])
    THEN TrackedIndent(lines, k + 1, i, marker,
             IF indent = -1 \/ IndentOf(lines[k]) < indent
             THEN IndentOf(lines[k]) ELSE indent)
    ELSE IF Trim(lines[k]) = <<>> /\ indent >= 0
    THEN TrackedIndent(lines, k + 1, i, marker,
             IF /\ k < Len(lines)
                /\ IsListLine(lines[k + 1])
                /\ IndentOf(lines[k + 1]) >= indent
             THEN indent ELSE -1)
    ELSE TrackedIndent(lines, k + 1, i, marker, indent)

\* The indentation tracked for the list open when line i is met, or -1.
ListIndentAt(lines, i) == TrackedIndent(lines, 1, i, "", -1)

\* Line i of lines is heading-shaped and outside any fence.
HeadingAt(lines, i) ==
    IsHeadingLine(lines[i]) /\ MarkerOpenAt(lines, i) = ""

\* The line after line i, if there is one, records nothing at the end of
\* line i in an open list: it is not blank, not a fence line and not a
\* list item of lower indentation.
QuietAfter(lines, i) ==
    \/ i = Len(lines)
    \/ /\ Trim(lines[i + 1]) # <<>>
       /\ FenceMarker(lines[i + 1]) = ""
       /\ IsListLine(lines[i + 1]) =>
              IndentOf(lines[i + 1]) >= ListIndentAt(lines, i)

\* C22: in a detection pass the end of every heading-shaped line met
\* outside any fence while no list is open is a boundary; a heading-shaped
\* line met while a list is open records no boundary at its end and leaves
\* the list open.
C22_HeadingBoundary ==
    (last = "detect" /\ Len(scans) = 1) =>
        \A i \in 1..Len(ScannedLines) :
            HeadingAt(ScannedLines, i) =>
                IF ListIndentAt(ScannedLines, i) = -1
                THEN LineEnd(ScannedLines, i) \in ScannedBoundaries
                ELSE QuietAfter(ScannedLines, i) =>
                         LineEnd(ScannedLines, i) \notin ScannedBoundaries

\* The detector ran on a heading, a list item and a heading still being
\* typed: the end of the first heading is the only boundary.
C22_Witness ==
    /\ last = "detect"
    /\ Len(scans) = 1
    /\ scans[1].buffer = Doc(<<LHead, LItem>>) \o LHead
    /\ scans[1].boundaries = <<3>>

\* Line i of lines is a list item met outside any fence while a list is
\* open.
ItemInOpenList(lines, i) ==
    /\ Trim(lines[i]) # <<>>
    /\ IsListLine(lines[i])
    /\ FenceMarker(lines[i]) = ""
    /\ MarkerOpenAt(lines, i) = ""
    /\ ListIndentAt(lines, i) >= 0

\* C23: in a detection pass a list item met while a list is open has a
\* boundary immediately before its line exactly when its indentation is
\* strictly less than the tracked indentation, which it then becomes; an
\* item of equal or deeper indentation records none and leaves the tracked
\* indentation as it is.  (The end of a closing fence line is a boundary
\* of its own, so the item after such a line is left out of the converse.)
C23_ListIndentation ==
    (last = "detect" /\ Len(scans) = 1) =>
        \A i \in 2..Len(ScannedLines) :
            ItemInOpenList(ScannedLines, i) =>
                IF IndentOf(ScannedLines[i]) < ListIndentAt(ScannedLines, i)
                THEN LineStart(ScannedLines, i) - 1 \in ScannedBoundaries
                ELSE FenceMarker(ScannedLines[i - 1]) = "" =>
                         LineStart(ScannedLines, i) - 1 \notin ScannedBoundaries

\* The detector ran on a nested item, an item of lower indentation, a
\* nested item again and an item back at the lower level: the one boundary
\* stands before the second line.
C23_Witness ==
    /\ last = "detect"
    /\ Len(scans) = 1
    /\ scans[1].buffer = Doc(<<LSubItem, LItem, LSubItem, LItem>>)
    /\ scans[1].boundaries = <<5>>

\* The number of elements open at position k of html.
DepthAt(html, k) ==
    Cardinality({j \in 1..(k - 1) :
        IsOpenTag(html[j]) /\ OpenTagName[html[j]] \notin VoidTags})
    - Cardinality({j \in 1..(k - 1) : IsCloseTag(html[j])})

\* The positions of html where the self-closing tag t stands with no
\* element open.
TopLevelAt(html, t) ==
    {k \in 1..Len(html) : html[k] = t /\ DepthAt(html, k) = 0}

\* The number of times the token t stands in html.
Occurrences(html, t) == Cardinality({k \in 1..Len(html) : html[k] = t})

\* The html of the blocks the splitter returned, one after the other.
SplitOutput == Concat([b \in 1..Len(ops) |-> ops[b].html])

\* C24: the splitter emits each self-closing element (img, br, hr, input)
\* it meets with no element open as a block, so that none of them is
\* missing from the blocks it returns: the blocks hold each such tag as
\* often as the html does.
C24_SelfClosingEmitted ==
    last = "split" =>
        \A t \in {"<img>", "<br>", "<hr>", "<input>"} :
            TopLevelAt(SplitHtml, t) # {} =>
                Occurrences(SplitOutput, t) >= Occurrences(SplitHtml, t)

\* C25: every chunk a content update forwards to the Render Pipeline, at a
\* detected boundary or by the fallback, ends with the newline of a
\* completed line.
C25_CompletedLines ==
    last \in {"feed", "restart", "clear"} =>
        \A k \in 1..Len(log) :
            /\ log[k].chunk # <<>>
            /\ log[k].chunk[Len(log[k].chunk)] = NL

RECURSIVE CutSlices(_, _, _)
\* The slices the offsets bs cut the buffer into, each from the end of the
\* one before it (lastIndex) to just behind its offset.
CutSlices(buffer, bs, lastIndex) ==
    IF bs = <<>> THEN <<>>
    ELSE <<Substring(buffer, lastIndex, Head(bs) + 1)>>
         \o CutSlices(buffer, Tail(bs), Head(bs) + 1)

\* The chunks of entries forwarded from the place via.
ChunksVia(entries, via) ==
    Chunks(SelectSeq(entries, LAMBDA e : e.via = via))

\* The offsets of the detection pass of the step are non-decreasing and
\* are offsets of characters of its buffer.
OffsetsWithinBuffer ==
    \A k \in 1..Len(scans') :
        \A b \in 1..Len(scans'[k].boundaries) :
            /\ scans'[k].boundaries[b] >= 0
            /\ scans'[k].boundaries[b] < StrLen(scans'[k].buffer)
            /\ b > 1 => scans'[k].boundaries[b - 1] <= scans'[k].boundaries[b]

\* The step appends to the content seen so far, and the slices it removes
\* from the buffer, followed by the buffer it leaves, are the buffer it
\* found followed by the text appended; the slices that are not blank are
\* the chunks it forwards, each once and in order.
SourceConserved ==
    LET delta  == SubSeq(content', Len(content) + 1, Len(content'))
        buffer == accumulatedMarkdown \o delta
        slices == IF scans' = <<>> THEN <<>>
                  ELSE CutSlices(buffer, scans'[1].boundaries, 0)
    IN  /\ scans' # <<>> => scans'[1].buffer = buffer
        /\ Concat(slices) \o Concat(ChunksVia(log', "fallback"))
               \o accumulatedMarkdown' = buffer
        /\ SelectSeq(slices, LAMBDA s : Trim(s) # <<>>)
               = ChunksVia(log', "boundary")
        /\ Len(ChunksVia(log', "fallback")) <= 1
        /\ Len(log') = Len(ChunksVia(log', "boundary"))
                           + Len(ChunksVia(log', "fallback"))

\* C26: in every append without reset the offsets the detector returns are
\* non-decreasing and lie within the buffer, and no source text is lost or
\* duplicated: the slices removed, in order, followed by the buffer that
\* is left are what was observed, and every slice that is not blank is
\* forwarded exactly once.
C26_NoLossNoDuplication ==
    [][last' = "feed" => OffsetsWithinBuffer /\ SourceConserved]_vars

\* C26, without the offsets: in every append without reset no source text
\* is lost or duplicated.
C26_SourceConserved ==
    [][last' = "feed" => SourceConserved]_vars

\* C27: in every state the id counter is the number of entries of the
\* Block Store and the entry at position i (from 0) has the id md-block-i.
C27_CounterMatchesStore ==
    /\ blockCounter = Len(renderBlocks)
    /\ \A i \in 1..Len(renderBlocks) : renderBlocks[i].id = BlockId(i - 1)

\* After a reset the store holds two blocks again, and the last handler
\* pushed a block and merged another into a stored one.
C27_Witness ==
    /\ resets >= 1
    /\ Len(renderBlocks) >= 2
    /\ \E k \in 1..Len(ops) : ops[k].op = "merge"
    /\ \E k \in 1..Len(ops) : ops[k].op = "push"

\* The content of html: its characters that are not whitespace, and its
\* images.
ContentOf(html) ==
    SelectSeq(html, LAMBDA t : t \notin Whitespace /\ (IsTag(t) => t = "<img>"))

\* The step appended the block offered as a new entry with the next id.
OfferPushed ==
    renderBlocks' = Append(renderBlocks, [id |-> BlockId(blockCounter),
                                          html |-> log'[1].chunk])

\* The step replaced the html of the last entry by html that holds the
\* content of the entry followed by the content of the block offered, and
\* left its id and the other entries as they were.
OfferMerged ==
    /\ renderBlocks # <<>>
    /\ Len(renderBlocks') = Len(renderBlocks)
    /\ \A i \in 1..(Len(renderBlocks) - 1) : renderBlocks'[i] = renderBlocks[i]
    /\ renderBlocks'[Len(renderBlocks)].id = renderBlocks[Len(renderBlocks)].id
    /\ ContentOf(renderBlocks'[Len(renderBlocks)].html)
           = ContentOf(StoredLast.html) \o ContentOf(log'[1].chunk)

EndsWith(s, t) ==
    Len(s) >= Len(t) /\ SubSeq(s, Len(s) - Len(t) + 1, Len(s)) = t

\* C29: after every content update the unflushed buffer holds at most 1000
\* characters or has no newline at an offset greater than 100; and a chunk
\* forwarded by the fallback ends with the last newline of the buffer: it
\* ends with a newline, the buffer left holds none, and the two together
\* are the end of the buffer the update worked on.
C29_BufferBounded ==
    last \in {"feed", "restart", "clear"} =>
        /\ \/ StrLen(accumulatedMarkdown) <= FlushThreshold
           \/ \A i \in 1..Len(accumulatedMarkdown) :
                  accumulatedMarkdown[i] = NL =>
                      OffsetOf(accumulatedMarkdown, i) <= MinNewlineOffset
        /\ \A k \in 1..Len(log) :
               log[k].via = "fallback" =>
                   /\ log[k].chunk # <<>>
                   /\ log[k].chunk[Len(log[k].chunk)] = NL
                   /\ \A i \in 1..Len(accumulatedMarkdown) :
                          accumulatedMarkdown[i] # NL
                   /\ EndsWith(scans[1].buffer,
                               log[k].chunk \o accumulatedMarkdown)

\* The fallback forwarded a chunk and left text without newline in the
\* buffer.
C29_Witness ==
    /\ last = "feed"
    /\ FellBack
    /\ accumulatedMarkdown # <<>>

\* The block is a bare row: a <tr>...</tr> span.
IsBareRow(html) ==
    LET t == Trim(html)
    IN  Len(t) >= 2 /\ t[1] = "<tr>" /\ t[Len(t)] = "</tr>"

\* The block is a full table span.
IsTableSpan(html) ==
    LET t == Trim(html)
    IN  /\ Len(t) >= 2
        /\ OpensOneOf(t[1], {"table"})
        /\ t[Len(t)] = "</table>"

\* The row elements of html: what stands from each <tr> to its </tr>.
RowElements(html) ==
    LET inRow(k) ==
            \E j \in 1..k :
                /\ html[j] = "<tr>"
                /\ \A m \in j..(k - 1) : html[m] # "</tr>"
    IN  Concat([k \in 1..Len(html) |->
                    IF inRow(k) THEN <<html[k]>> ELSE <<>>])

\* The last stored block has an open table and is not an open list, and
\* the block offered is a bare row or a full table span.
TablePremise ==
    /\ renderBlocks # <<>>
    /\ OpenElement(StoredLast.html, {"table"})
    /\ ~OpenElement(StoredLast.html, {"ul", "ol"})
    /\ IsBareRow(log'[1].chunk) \/ IsTableSpan(log'[1].chunk)

\* The step made the last stored block its html followed by the row
\* elements of the block offered and one closing table tag, under its id.
TableMerged ==
    /\ renderBlocks # <<>>
    /\ renderBlocks' =
           [renderBlocks EXCEPT ![Len(renderBlocks)].html =
               StoredLast.html \o RowElements(log'[1].chunk)
                               \o <<"</table>">>]

\* C30 as stated: a block is merged into the last stored block as table
\* content exactly when that block has an open table, is not an open list
\* and the new block is a bare row or a full table span; the merged html
\* is the html of the last block, the row elements of the new block and a
\* closing table tag, and the id is kept.
C30_TableMerge ==
    [][last' = "offer" => (TablePremise <=> TableMerged)]_vars

\* C30, amended: the same, when the last stored block holds no image; a
\* block offered to an open table that holds an image is appended as a new
\* entry.
C30_TableMergeWithoutImage ==
    [][last' = "offer" =>
          /\ (TablePremise /\ ~HoldsImage(StoredLast.html)) <=> TableMerged
          /\ (TablePremise /\ HoldsImage(StoredLast.html)) => OfferPushed
      ]_vars

\* A full table was offered to a store whose last block is an open table
\* and merged into it.
C30_Witness ==
    /\ last = "offer"
    /\ Len(renderBlocks) >= 1
    /\ IsTableSpan(log[1].chunk)
    /\ \E k \in 1..Len(ops) : ops[k].op = "merge"
    /\ Len(StoredLast.html) > Len(RowElements(log[1].chunk)) + 1
    /\ StoredLast.html[Len(StoredLast.html)] = "</table>"
    /\ OpensOneOf(StoredLast.html[1], {"table"})
=============================================================================
